---- MODULE Spec2Model ----
(***************************************************************************)
(* Model of the OpenAlex API analytics worker: the request handler         *)
(* (src/src/index.ts, src/unnamed/part_001) and the aggregation, range     *)
(* and timeline functions of src/src/queries.ts.                           *)
(*                                                                         *)
(* Strings that the code compares or matches (index keys, bucket           *)
(* parameters) are sequences of byte codes, so that the lexicographic      *)
(* comparison of the store and the regular expressions of the code are     *)
(* computed, not assumed.  Numbers are integers: sample weights are sums   *)
(* of the integer _sample_interval column, response times are integer      *)
(* milliseconds; on such values the double arithmetic of the code is       *)
(* exact.  A value rounded to two decimals is kept in hundredths.          *)
(***************************************************************************)
EXTENDS Integers, Sequences, FiniteSets, TLC

VARIABLES
    pc,         \* position of the request being handled
    op,         \* the analytics operation of the request
    period,     \* validated period of the request
    limitParam, \* limit parameter of the URL, <<>> when absent
    limit,      \* limit handed to the operation
    results,    \* rows returned by executeQuery
    entries,    \* userMap / bucketMap, in insertion order
    sorted,     \* sortedUsers: entries after sort and slice
    out,        \* topUsers / topAnonymous: the entities returned
    route,      \* url.pathname of the request
    periodParam,\* period parameter of the URL, "" when absent
    keyParam,   \* apiKey or bucket parameter of the URL, <<>> when absent
    limitNaN,   \* whether parseInt made NaN of the limit parameter
    queries,    \* number of queries sent to the store for the request
    lookups,    \* API keys looked up in D1 for the request, in order of issue
    answer,     \* what the store answered to the query: status and body
    response,   \* the response of the request
    rpc,        \* position of the bucket-scoped query
    fn,         \* the bucket-scoped function called
    bucket,     \* its bucket parameter
    index1,     \* index key of the stored sample the WHERE clause is tried on
    selected,   \* whether the WHERE clause selects that sample
    tpc,        \* position of the timeline query
    now,        \* NOW() of the store, in minutes
    dataset,    \* the samples written to the store
    tfn,        \* the timeline function called
    tperiod,    \* its period
    tkey,       \* its apiKey or bucket parameter
    timeline,   \* the timeline it returned
    reqs,       \* the locals of the requests handled concurrently
    wpc,        \* position of the request in fetch and handleApiRequest (part_001)
    wreq,       \* that request: method, path, Authorization header, period, body
    wresp,      \* its response
    wqueries,   \* store queries sent for it
    wreads,     \* D1 statements that read, run for it
    wwrites,    \* D1 statements that write, run for it
    db,         \* the table api_keys_archive of D1
    ipc,        \* position of the /api/ip-info request
    clock,      \* Date.now() of the worker, in milliseconds
    ipCache,    \* the Map ipCache of the module
    ipReq,      \* ip parameter of the request
    ipResp,     \* its response
    ipFetches,  \* requests sent to the geolocation service for it
    ipServed,   \* getCachedIpInfo of the request: the entry it found, its age, the outcome
    ipAnswered, \* per address: when a request ended that the service had answered
    cpc,        \* position of the dashboard drilling into an anonymous bucket
    ranked,     \* topAnonymous as getTopAnonymousUsers returned it
    cperiod,    \* the period both functions are called with
    cbucket,    \* the bucket of the row clicked
    breakdown,  \* what getAnonymousStatusBreakdown returned for it
    currentPeriod, \* the dashboard script: currentPeriod
    currentView,\* the dashboard script: currentView.type
    loads,      \* the loadData calls in flight
    rendered,   \* the period whose data the tables and charts show
    clicks      \* clicks handled by the dashboard script

vars == <<pc, op, period, limitParam, limit, results, entries, sorted, out,
          route, periodParam, keyParam, limitNaN, queries, lookups, answer, response,
          rpc, fn, bucket, index1, selected,
          tpc, now, dataset, tfn, tperiod, tkey, timeline,
          reqs,
          wpc, wreq, wresp, wqueries, wreads, wwrites, db,
          ipc, clock, ipCache, ipReq, ipResp, ipFetches, ipServed, ipAnswered,
          cpc, ranked, cperiod, cbucket, breakdown,
          currentPeriod, currentView, loads, rendered, clicks>>

aggVars == <<pc, op, period, limitParam, limit, results, entries, sorted, out,
             route, periodParam, keyParam, limitNaN, queries, lookups, answer, response>>
rangeVars == <<rpc, fn, bucket, index1, selected>>
timeVars == <<tpc, now, dataset, tfn, tperiod, tkey, timeline>>
concVars == <<reqs>>
\* the variables of the other parts of the worker
workerVars == <<wpc, wreq, wresp, wqueries, wreads, wwrites, db>>
ipVars == <<ipc, clock, ipCache, ipReq, ipResp, ipFetches, ipServed, ipAnswered>>
crossVars == <<cpc, ranked, cperiod, cbucket, breakdown>>
dashVars == <<currentPeriod, currentView, loads, rendered, clicks>>
extVars == <<concVars, workerVars, ipVars, crossVars, dashVars>>
coreVars == <<aggVars, rangeVars, timeVars>>

(***************************************************************************)
(* Bounds                                                                  *)
(***************************************************************************)
MaxBucketId == 105
MaxRows == 3
MaxLimit == 2
MaxApiRows == 2
MaxSamples == 2
MaxRequests == 2
MaxKeyId == 2
MaxClicks == 4

(***************************************************************************)
(* Byte strings                                                            *)
(***************************************************************************)
Underscore == 95
Minus == 45
Plus == 43
Zero == 48
\* "anon_"
AnonPrefix == <<97, 110, 111, 110, 95>>

IsDigit(c) == c >= Zero /\ c <= Zero + 9

\* template-literal conversion of a non-negative integer: `${n}`
RECURSIVE NumberToString(_)
NumberToString(n) ==
    IF n < 10 THEN <<Zero + n>>
    ELSE NumberToString(n \div 10) \o <<Zero + (n % 10)>>

\* parseInt of a digit string
RECURSIVE parseInt(_)
parseInt(s) ==
    IF Len(s) = 0 THEN 0
    ELSE 10 * parseInt(SubSeq(s, 1, Len(s) - 1)) + (s[Len(s)] - Zero)

\* the comparison of the store on strings: byte-wise lexicographic
RECURSIVE StrLess(_, _)
StrLess(a, b) ==
    IF Len(b) = 0 THEN FALSE
    ELSE IF Len(a) = 0 THEN TRUE
    ELSE IF a[1] < b[1] THEN TRUE
    ELSE IF a[1] > b[1] THEN FALSE
    ELSE StrLess(Tail(a), Tail(b))

StrGeq(a, b) == ~StrLess(a, b)

StartsWith(s, p) == Len(s) >= Len(p) /\ SubSeq(s, 1, Len(p)) = p

\* the longest run of digits at the head of s
RECURSIVE LeadingDigits(_)
LeadingDigits(s) ==
    IF Len(s) = 0 \/ ~IsDigit(s[1]) THEN <<>>
    ELSE <<s[1]>> \o LeadingDigits(Tail(s))

\* index key written upstream for anonymous traffic: anon_${bucket}_${statusCode}
IndexKey(b, s) == AnonPrefix \o NumberToString(b) \o <<Underscore>> \o NumberToString(s)

\* bucket identifier as the dashboard sends it: anon_${bucket}
BucketName(b) == AnonPrefix \o NumberToString(b)

(***************************************************************************)
(* Bucket-scoped queries: the range predicate on index1                    *)
(***************************************************************************)
BucketFunctions ==
    {"getTopIpInBucket", "getAnonymousTimeline", "getSampleUrlsForBucket",
     "getAnonymousStatusBreakdown", "getTopUserAgentsForBucket",
     "getTopReferrersForBucket"}

StatusCodes == {200, 404, 500}

\* bucket.match(/^anon_(\d+)$/): the captured digits, <<>> when no match
bucketMatch(b) ==
    IF StartsWith(b, AnonPrefix)
    THEN LET rest == SubSeq(b, Len(AnonPrefix) + 1, Len(b))
         IN IF Len(rest) > 0 /\ LeadingDigits(rest) = rest THEN rest ELSE <<>>
    ELSE <<>>

prefix(b) == AnonPrefix \o NumberToString(parseInt(bucketMatch(b))) \o <<Underscore>>

prefixEnd(b) == AnonPrefix \o NumberToString(parseInt(bucketMatch(b)) + 1) \o <<Underscore>>

\* index1 LIKE 'anon_${bucketMatch[1]}_%': in LIKE, _ matches any one character
\* and % any run of characters
LikePattern(b) == AnonPrefix \o bucketMatch(b) \o <<Underscore>>

WhereLike(key, b) ==
    /\ Len(key) >= Len(LikePattern(b))
    /\ \A i \in 1..Len(LikePattern(b)) :
          LikePattern(b)[i] = Underscore \/ LikePattern(b)[i] = key[i]

\* AND index1 >= '${prefix}' AND index1 < '${prefixEnd}'
WhereRange(key, b) == StrGeq(key, prefix(b)) /\ StrLess(key, prefixEnd(b))

\* bucket parameters a request can carry: well-formed ones and malformed ones
MalformedBuckets == {AnonPrefix, <<97, 110, 111, 110>>, AnonPrefix \o <<Zero + 1, Underscore>>}

BucketParams == {BucketName(n) : n \in 0..MaxBucketId} \cup MalformedBuckets

\* error.message of a failure: its wording and, when the store's answer is
\* quoted in it, the status and the text of that answer
Message(text, status, body) == [text |-> text, status |-> status, body |-> body]

NoMessage == Message("", 0, "")

\* new Response(JSON.stringify(data), {status}): the members of data that matter
jsonResponse(fields, status, error, message) ==
    [status |-> status, fields |-> fields, error |-> error, message |-> message]

\* the answer of the store to the POST of executeQuery
Answer(status, body) == [status |-> status, body |-> body]

\* no query has been answered
NoAnswer == Answer(0, "")

\* response.ok with a body response.json() parses
JsonAnswer == Answer(200, "{\"data\": [...]}")

\* no response has been sent
NoResponse == jsonResponse({}, 0, "", NoMessage)

AggIdle ==
    /\ pc = "idle"
    /\ op = "none"
    /\ period = "hour"
    /\ limitParam = <<>>
    /\ limit = 0
    /\ results = <<>>
    /\ entries = <<>>
    /\ sorted = <<>>
    /\ out = <<>>
    /\ route = ""
    /\ periodParam = ""
    /\ keyParam = <<>>
    /\ limitNaN = FALSE
    /\ queries = 0
    /\ lookups = <<>>
    /\ answer = NoAnswer
    /\ response = NoResponse

RangeIdle ==
    /\ rpc = "idle"
    /\ fn = "none"
    /\ bucket = <<>>
    /\ index1 = <<>>
    /\ selected = FALSE

TimeIdle ==
    /\ tpc = "idle"
    /\ now = 0
    /\ dataset = {}
    /\ tfn = "none"
    /\ tperiod = "hour"
    /\ tkey = <<>>
    /\ timeline = <<>>

RequestIds == 1..MaxRequests

\* the locals of a call that has not begun
NoRequest ==
    [pc |-> "idle", op |-> "none", limit |-> 0,
     results |-> <<>>, entries |-> <<>>, sorted |-> <<>>, out |-> <<>>]

ConcIdle == reqs = [i \in RequestIds |-> NoRequest]

\* fetch of part_001 has no request in hand; the table holds its rows
NoNumber == 0 - 1

\* a request without a body that request.json() can parse
NoBody == [parses |-> FALSE, id |-> 0, name |-> "undefined", max_per_second |-> NoNumber]

NoWorkerRequest ==
    [method |-> "none", path |-> "none", authorization |-> <<>>,
     periodParam |-> "", body |-> NoBody]

NoWorkerResponse == [status |-> 0, text |-> ""]

KeyIds == 1..MaxKeyId

InitialDb == [i \in KeyIds |-> [name |-> "a", max_per_second |-> 1]]

WorkerIdle ==
    /\ wpc = "idle"
    /\ wreq = NoWorkerRequest
    /\ wresp = NoWorkerResponse
    /\ wqueries = 0
    /\ wreads = 0
    /\ wwrites = 0
    /\ db = InitialDb

IpAddresses == {"ip1", "ip2"}

\* ipCache.get(ip) of an address never stored
NoEntry == [present |-> FALSE, data |-> "none", timestamp |-> 0]

NoIpResponse == [status |-> 0, body |-> "none", outcome |-> "none", at |-> 0]

\* getCachedIpInfo has not been called
NoCacheLookup == [present |-> FALSE, age |-> 0, hit |-> FALSE, at |-> 0]

\* const ipCache = new Map(): no entry
IpIdle ==
    /\ ipc = "idle"
    /\ clock = 0
    /\ ipCache = [a \in IpAddresses |-> NoEntry]
    /\ ipReq = ""
    /\ ipResp = NoIpResponse
    /\ ipFetches = 0
    /\ ipServed = NoCacheLookup
    /\ ipAnswered = [a \in IpAddresses |-> 0 - 1]

CrossIdle ==
    /\ cpc = "idle"
    /\ ranked = <<>>
    /\ cperiod = "hour"
    /\ cbucket = <<>>
    /\ breakdown = <<>>

NothingRendered == [period |-> "none", view |-> "none", error |-> FALSE]

\* let currentPeriod = 'hour'; let currentView = { type: 'overview', ... }
DashIdle ==
    /\ currentPeriod = "hour"
    /\ currentView = "overview"
    /\ loads = {}
    /\ rendered = NothingRendered
    /\ clicks = 0

ExtIdle == ConcIdle /\ WorkerIdle /\ IpIdle /\ CrossIdle /\ DashIdle

\* the upstream proxy has written a sample of anonymous traffic
WriteSample(m, s) ==
    /\ rpc = "idle"
    /\ index1' = IndexKey(m, s)
    /\ rpc' = "stored"
    /\ UNCHANGED <<fn, bucket, selected>>
    /\ UNCHANGED aggVars
    /\ UNCHANGED timeVars
    /\ UNCHANGED extVars

\* a bucket-scoped function is called; a malformed bucket throws before the query
BucketQuery(f, b) ==
    /\ rpc = "stored"
    /\ fn' = f
    /\ bucket' = b
    /\ IF bucketMatch(b) = <<>>
       THEN /\ rpc' = "threw"
            /\ selected' = FALSE
       ELSE /\ rpc' = "queried"
            /\ selected' = WhereRange(index1, b)
    /\ UNCHANGED index1
    /\ UNCHANGED aggVars
    /\ UNCHANGED timeVars
    /\ UNCHANGED extVars

\* the call has returned; the next sample and call are independent of it
RangeReset ==
    /\ rpc \in {"queried", "threw"}
    /\ rpc' = "idle"
    /\ fn' = "none"
    /\ bucket' = <<>>
    /\ index1' = <<>>
    /\ selected' = FALSE
    /\ UNCHANGED aggVars
    /\ UNCHANGED timeVars
    /\ UNCHANGED extVars

RangeInit == AggIdle /\ RangeIdle /\ TimeIdle /\ ExtIdle

RangeNext ==
    \/ \E m \in 0..MaxBucketId, s \in StatusCodes : WriteSample(m, s)
    \/ \E f \in BucketFunctions, b \in BucketParams : BucketQuery(f, b)
    \/ RangeReset

SpecRange == RangeInit /\ [][RangeNext]_vars

(***************************************************************************)
(* Numbers                                                                 *)
(***************************************************************************)
\* a finite number, in hundredths
Num(h) == [nan |-> FALSE, inf |-> 0, val |-> h]
\* the result of 0 / 0
NaN == [nan |-> TRUE, inf |-> 0, val |-> 0]
\* the result of n / 0 for n # 0: +Infinity (sign 1) or -Infinity (sign -1)
Infinity(sign) == [nan |-> FALSE, inf |-> sign, val |-> 0]

\* Math.round(x): the nearest integer, halves towards +Infinity; x = n / d, d # 0
MathRound(n, d) ==
    IF d > 0 THEN (2 * n + d) \div (2 * d) ELSE (0 - 2 * n - d) \div (0 - 2 * d)

\* Math.round((n / d) * scale) / 100, in hundredths
RoundedRatio(n, d, scale) ==
    IF d = 0
    THEN (IF n = 0 THEN NaN ELSE Infinity(IF n > 0 THEN 1 ELSE -1))
    ELSE Num(MathRound(n * scale, d))

(***************************************************************************)
(* Rows of the store                                                       *)
(***************************************************************************)
\* the API keys "k1", "k2", "k3"
ApiKey(n) == <<107, Zero + n>>

\* an index key that is not of an anonymous bucket
OtherKey == <<107, Zero + 1, Underscore, Zero + 2>>

IpA == "203.0.113.7"
IpB == "198.51.100.9"

\* (SUM(_sample_interval), avgResponseTime) of a group
UserMeasures == {<<0, 150>>, <<10, 150>>, <<2, 200>>}
AnonMeasures == {<<0, 150>>, <<5, 150>>, <<1, 120>>}

\* SUM(if(toUInt32(double2) >= 200 AND toUInt32(double2) < 300, _sample_interval, 0))
successCountOf(statusCode, requestCount) ==
    IF statusCode >= 200 /\ statusCode < 300 THEN requestCount ELSE 0

Row(key, ip, statusCode, m) ==
    [key |-> key, ipSample |-> ip, statusCode |-> statusCode,
     requestCount |-> m[1], avgResponseTime |-> m[2],
     successCount |-> successCountOf(statusCode, m[1])]

\* GROUP BY blob1, double2
UserGroups ==
    {<<ApiKey(1), 200>>, <<ApiKey(1), 500>>, <<ApiKey(2), 200>>, <<ApiKey(3), 500>>}

\* GROUP BY index1, blob2, double2
AnonBucketIds == {3, 30}

AnonGroups ==
    {<<IndexKey(3, 200), IpA, 200>>, <<IndexKey(3, 200), IpB, 200>>,
     <<IndexKey(3, 404), IpA, 404>>, <<IndexKey(30, 200), "", 200>>,
     <<OtherKey, IpA, 200>>}

UserRows == {Row(g[1], "", g[2], m) : g \in UserGroups, m \in UserMeasures}

\* the second address of anon_3_200 and the foreign key come with one measure each
AnonRows ==
    {Row(g[1], g[2], g[3], m) :
        g \in {h \in AnonGroups : h[2] # IpB /\ h[1] # OtherKey}, m \in AnonMeasures}
    \cup {Row(g[1], g[2], g[3], <<1, 120>>) :
             g \in {h \in AnonGroups : h[2] = IpB \/ h[1] = OtherKey}}

GroupOf(r) == <<r.key, r.ipSample, r.statusCode>>

\* the answers of the store: at most MaxRows rows, one per group, in any order
Answers(rows) ==
    UNION {{a \in [1..n -> rows] :
               \A i, j \in 1..n : i # j => GroupOf(a[i]) # GroupOf(a[j])} :
           n \in 0..MaxRows}

(***************************************************************************)
(* getTopUsers                                                             *)
(***************************************************************************)
DefaultLimit == 10

\* position of a key in a Map kept in insertion order, 0 when absent
IndexOfKey(m, k) ==
    IF \E i \in 1..Len(m) : m[i].key = k
    THEN CHOOSE i \in 1..Len(m) : m[i].key = k
    ELSE 0

\* variant: the requests are counted by rows, not by weight
userMapStep_CountRows(m, result) ==
    LET i == IndexOfKey(m, result.key)
    IN IF i # 0
       THEN [m EXCEPT
               ![i].totalRequests = @ + 1,
               ![i].successfulRequests = @ + result.successCount,
               ![i].totalResponseTime = @ + result.avgResponseTime * result.requestCount]
       ELSE Append(m, [key |-> result.key,
                       totalRequests |-> 1,
                       successfulRequests |-> result.successCount,
                       totalResponseTime |-> result.avgResponseTime * result.requestCount])

\* one turn of the loop over results: userMap.get, then += or userMap.set
userMapStep(m, result) ==
    LET i == IndexOfKey(m, result.key)
    IN IF i # 0
       THEN [m EXCEPT
               ![i].totalRequests = @ + result.requestCount,
               ![i].successfulRequests = @ + result.successCount,
               ![i].totalResponseTime = @ + result.avgResponseTime * result.requestCount]
       ELSE Append(m, [key |-> result.key,
                       totalRequests |-> result.requestCount,
                       successfulRequests |-> result.successCount,
                       totalResponseTime |-> result.avgResponseTime * result.requestCount])

\* variant: the fold of the rows keeps, for a key seen again, the later row only
RECURSIVE userMapOf_LastWins(_)
userMapOf_LastWins(rows) ==
    IF Len(rows) = 0 THEN <<>>
    ELSE LET m == userMapOf_LastWins(SubSeq(rows, 1, Len(rows) - 1))
             result == rows[Len(rows)]
             i == IndexOfKey(m, result.key)
             stats == [key |-> result.key,
                       totalRequests |-> result.requestCount,
                       successfulRequests |-> result.successCount,
                       totalResponseTime |-> result.avgResponseTime * result.requestCount]
         IN IF i # 0 THEN [m EXCEPT ![i] = stats] ELSE Append(m, stats)

RECURSIVE userMapOf(_)
userMapOf(rows) ==
    IF Len(rows) = 0 THEN <<>>
    ELSE userMapStep(userMapOf(SubSeq(rows, 1, Len(rows) - 1)), rows[Len(rows)])

\* variant: the comparator is (a, b) => a - b
RankAsc(v, i) ==
    1 + Cardinality({j \in DOMAIN v : v[j] < v[i] \/ (v[j] = v[i] /\ j < i)})

SortDesc_Ascending(s, v) ==
    [p \in 1..Len(s) |-> s[CHOOSE i \in 1..Len(s) : RankAsc(v, i) = p]]

\* Array.prototype.sort with (a, b) => b - a on the values v: descending, stable
RankDesc(v, i) ==
    1 + Cardinality({j \in DOMAIN v : v[j] > v[i] \/ (v[j] = v[i] /\ j < i)})

SortDesc(s, v) ==
    [p \in 1..Len(s) |-> s[CHOOSE i \in 1..Len(s) : RankDesc(v, i) = p]]

\* Array.prototype.slice(0, end)
Slice0(s, end) ==
    LET e == IF end < 0 THEN (IF Len(s) + end < 0 THEN 0 ELSE Len(s) + end)
             ELSE (IF end > Len(s) THEN Len(s) ELSE end)
    IN SubSeq(s, 1, e)

\* variant: every entity is kept for the lookups, none is sliced off
sortedUsersOf_Unsliced(m, lim) ==
    SortDesc(m, [i \in 1..Len(m) |-> m[i].totalRequests])

sortedUsersOf(m, lim) ==
    Slice0(SortDesc(m, [i \in 1..Len(m) |-> m[i].totalRequests]), lim)

periodDurationSeconds(p) == IF p = "hour" THEN 3600 ELSE 86400

\* api_keys of D1: the key k1 is on file with every field filled, the key k2 is
\* on file with an empty name and an empty organization, the others are not on file
UserInfo(apiKey) ==
    IF apiKey = ApiKey(1)
    THEN [found |-> TRUE, name |-> "Ada", email |-> "ada@example.org", organization |-> "Org"]
    ELSE IF apiKey = ApiKey(2)
    THEN [found |-> TRUE, name |-> "", email |-> "k2@example.org", organization |-> ""]
    ELSE [found |-> FALSE, name |-> "", email |-> "", organization |-> ""]

\* userInfo?.field || null
OrNull(info, field) == IF info.found /\ field # "" THEN field ELSE "null"

\* variant: the average is rounded to an integer before it is rounded to 2 decimals
TopUser_RoundedEarly(stats, p) ==
    [key |-> stats.key,
     name |-> OrNull(UserInfo(stats.key), UserInfo(stats.key).name),
     email |-> OrNull(UserInfo(stats.key), UserInfo(stats.key).email),
     organization |-> OrNull(UserInfo(stats.key), UserInfo(stats.key).organization),
     requestCount |-> MathRound(stats.totalRequests, 1),
     requestsPerSecond |-> RoundedRatio(stats.totalRequests, periodDurationSeconds(p), 100),
     avgResponseTime |->
        IF stats.totalRequests = 0 THEN NaN
        ELSE Num(100 * MathRound(stats.totalResponseTime, stats.totalRequests)),
     successRate |-> RoundedRatio(stats.successfulRequests, stats.totalRequests, 10000)]

TopUser(stats, p) ==
    [key |-> stats.key,
     name |-> OrNull(UserInfo(stats.key), UserInfo(stats.key).name),
     email |-> OrNull(UserInfo(stats.key), UserInfo(stats.key).email),
     organization |-> OrNull(UserInfo(stats.key), UserInfo(stats.key).organization),
     requestCount |-> MathRound(stats.totalRequests, 1),
     requestsPerSecond |-> RoundedRatio(stats.totalRequests, periodDurationSeconds(p), 100),
     avgResponseTime |-> RoundedRatio(stats.totalResponseTime, stats.totalRequests, 100),
     successRate |-> RoundedRatio(stats.successfulRequests, stats.totalRequests, 10000)]

(***************************************************************************)
(* getTopAnonymousUsers                                                    *)
(***************************************************************************)
\* variant: the pattern is /^anon_(\d)/, one digit and no closing underscore
indexKeyMatch_OneDigit(key) ==
    IF StartsWith(key, AnonPrefix) /\ Len(key) > Len(AnonPrefix) /\ IsDigit(key[Len(AnonPrefix) + 1])
    THEN <<key[Len(AnonPrefix) + 1]>>
    ELSE <<>>

\* result.indexKey.match(/^anon_(\d+)_/): the captured digits, <<>> when no match
indexKeyMatch(key) ==
    IF StartsWith(key, AnonPrefix)
    THEN LET rest == SubSeq(key, Len(AnonPrefix) + 1, Len(key))
             digits == LeadingDigits(rest)
         IN IF Len(digits) > 0 /\ Len(rest) > Len(digits) /\ rest[Len(digits) + 1] = Underscore
            THEN digits ELSE <<>>
    ELSE <<>>

\* variant: a row whose key does not match is kept under its whole key
bucketMapStep_NoSkip(m, result) ==
    LET b == IF indexKeyMatch(result.key) = <<>> THEN result.key
             ELSE AnonPrefix \o indexKeyMatch(result.key)
        i == IndexOfKey(m, b)
    IN IF i # 0
       THEN [m EXCEPT
               ![i].requestCount = @ + result.requestCount,
               ![i].totalResponseTime = @ + result.avgResponseTime * result.requestCount,
               ![i].successfulRequests = @ + result.successCount]
       ELSE Append(m, [key |-> b,
                       ipSample |-> IF result.ipSample = "" THEN "null" ELSE result.ipSample,
                       requestCount |-> result.requestCount,
                       totalResponseTime |-> result.avgResponseTime * result.requestCount,
                       successfulRequests |-> result.successCount])

\* one turn of the loop over results: skip, or bucketMap.get, then += or set
bucketMapStep(m, result) ==
    IF indexKeyMatch(result.key) = <<>> THEN m
    ELSE LET b == AnonPrefix \o indexKeyMatch(result.key)
             i == IndexOfKey(m, b)
         IN IF i # 0
            THEN [m EXCEPT
                    ![i].requestCount = @ + result.requestCount,
                    ![i].totalResponseTime = @ + result.avgResponseTime * result.requestCount,
                    ![i].successfulRequests = @ + result.successCount]
            ELSE Append(m, [key |-> b,
                            ipSample |-> IF result.ipSample = "" THEN "null" ELSE result.ipSample,
                            requestCount |-> result.requestCount,
                            totalResponseTime |-> result.avgResponseTime * result.requestCount,
                            successfulRequests |-> result.successCount])

RECURSIVE bucketMapOf(_)
bucketMapOf(rows) ==
    IF Len(rows) = 0 THEN <<>>
    ELSE bucketMapStep(bucketMapOf(SubSeq(rows, 1, Len(rows) - 1)), rows[Len(rows)])

TopAnonymousUser(item, p) ==
    [key |-> item.key,
     ipSample |-> item.ipSample,
     requestCount |-> MathRound(item.requestCount, 1),
     requestsPerSecond |-> RoundedRatio(item.requestCount, periodDurationSeconds(p), 100),
     avgResponseTime |-> RoundedRatio(item.totalResponseTime, item.requestCount, 100),
     successRate |-> RoundedRatio(item.successfulRequests, item.requestCount, 10000)]

topAnonymousOf(m, p, lim) ==
    LET mapped == [i \in 1..Len(m) |-> TopAnonymousUser(m[i], p)]
    IN Slice0(SortDesc(mapped, [i \in 1..Len(m) |-> mapped[i].requestCount]), lim)

(***************************************************************************)
(* handleApiRequest                                                        *)
(***************************************************************************)
TopRoutes == {"/api/top-users", "/api/top-anonymous"}

ApiKeyRoutes ==
    {"/api/user-status-breakdown", "/api/user-timeline", "/api/sample-urls-user",
     "/api/user-agents-user", "/api/referrers-user"}

BucketRoutes ==
    {"/api/anonymous-status-breakdown", "/api/anonymous-timeline",
     "/api/top-ip-in-bucket", "/api/sample-urls-bucket",
     "/api/user-agents-bucket", "/api/referrers-bucket"}

PlainRoutes ==
    {"/api/usage-timeline", "/api/user-agents-aggregate", "/api/referrers-aggregate"}

\* the analytics routes, and a path no route matches
Routes == TopRoutes \cup ApiKeyRoutes \cup BucketRoutes \cup PlainRoutes \cup {"/api/unknown"}

\* the function of queries.ts a route calls
OperationOf(r) ==
    CASE r = "/api/top-users" -> "getTopUsers"
      [] r = "/api/top-anonymous" -> "getTopAnonymousUsers"
      [] r = "/api/usage-timeline" -> "getUsageTimeline"
      [] r = "/api/user-status-breakdown" -> "getUserStatusBreakdown"
      [] r = "/api/anonymous-status-breakdown" -> "getAnonymousStatusBreakdown"
      [] r = "/api/user-timeline" -> "getUserTimeline"
      [] r = "/api/anonymous-timeline" -> "getAnonymousTimeline"
      [] r = "/api/top-ip-in-bucket" -> "getTopIpInBucket"
      [] r = "/api/sample-urls-user" -> "getSampleUrlsForUser"
      [] r = "/api/sample-urls-bucket" -> "getSampleUrlsForBucket"
      [] r = "/api/user-agents-user" -> "getTopUserAgentsForUser"
      [] r = "/api/referrers-user" -> "getTopReferrersForUser"
      [] r = "/api/user-agents-bucket" -> "getTopUserAgentsForBucket"
      [] r = "/api/referrers-bucket" -> "getTopReferrersForBucket"
      [] r = "/api/user-agents-aggregate" -> "getTopUserAgentsAggregate"
      [] r = "/api/referrers-aggregate" -> "getTopReferrersAggregate"
      [] OTHER -> "none"

Operations == {"getTopUsers", "getTopAnonymousUsers"}
Periods == {"hour", "day"}

\* the period parameter of the URL: absent (or empty), a valid one, another word
PeriodParams == {"", "hour", "day", "week"}

\* url.searchParams.get('period') || 'hour'
periodOf(pp) == IF pp = "" THEN "hour" ELSE pp

\* variant: every period is let through
validPeriod_Any(p) == TRUE

\* !(period !== 'hour' && period !== 'day')
validPeriod(p) == p = "hour" \/ p = "day"

\* the limit parameter of the URL: absent (or empty), or a decimal number
LimitParams == {<<>>} \cup {NumberToString(n) : n \in 0..MaxLimit}

\* limit parameters with a sign, and one that is no number ("abc")
SignedLimitParams ==
    {<<>>, <<97, 98, 99>>} \cup {<<Minus>> \o NumberToString(n) : n \in 1..MaxLimit}
    \cup {NumberToString(n) : n \in 1..MaxLimit}

\* parseInt(s, 10) of a non-empty s without leading blanks: an optional sign,
\* then the leading digits; NaN when there are none
parseIntSigned(s) ==
    LET signed == s[1] = Minus \/ s[1] = Plus
        digits == LeadingDigits(IF signed THEN SubSeq(s, 2, Len(s)) ELSE s)
    IN IF digits = <<>> THEN [nan |-> TRUE, val |-> 0]
       ELSE [nan |-> FALSE,
             val |-> IF s[1] = Minus THEN 0 - parseInt(digits) ELSE parseInt(digits)]

\* parseInt(url.searchParams.get('limit') || '10', 10); 0 stands in for NaN,
\* which slice(0, NaN) reads as 0
limitOf(param) == IF param = <<>> THEN DefaultLimit ELSE parseIntSigned(param).val

limitIsNaN(param) == param # <<>> /\ parseIntSigned(param).nan

\* the apiKey or bucket parameter: absent (or empty), an API key, a bucket, and
\* words that are not of the form anon_<digits>
KeyParams == {<<>>, ApiKey(1), BucketName(3)} \cup MalformedBuckets

\* the members of the body of a 200 response
ResponseFields(r) ==
    CASE r = "/api/top-ip-in-bucket" -> {"bucket", "ipAddress", "timestamp"}
      [] r \in {"/api/sample-urls-user", "/api/sample-urls-bucket"} -> {"urls", "timestamp"}
      [] r \in {"/api/user-agents-user", "/api/referrers-user", "/api/user-agents-bucket",
                "/api/referrers-bucket", "/api/user-agents-aggregate",
                "/api/referrers-aggregate"} -> {"data", "timestamp"}
      [] OTHER -> {"period", "data", "timestamp"}

Ok(r) == jsonResponse(ResponseFields(r), 200, "", NoMessage)

\* the catch of handleApiRequest
InternalError(message) ==
    jsonResponse({"error", "message"}, 500, "Internal server error", message)

\* what handleApiRequest does with a request before any await
Rejected(r, pp, kp) ==
    \/ ~validPeriod(periodOf(pp))
    \/ r \in ApiKeyRoutes \cup BucketRoutes /\ kp = <<>>
    \/ OperationOf(r) = "none"

Rejection(r, pp, kp) ==
    IF ~validPeriod(periodOf(pp))
    THEN jsonResponse({"error"}, 400, "Invalid period. Use \"hour\" or \"day\".", NoMessage)
    ELSE IF r \in ApiKeyRoutes /\ kp = <<>>
    THEN jsonResponse({"error"}, 400, "apiKey parameter is required", NoMessage)
    ELSE IF r \in BucketRoutes /\ kp = <<>>
    THEN jsonResponse({"error"}, 400, "bucket parameter is required", NoMessage)
    ELSE jsonResponse({"error"}, 404, "API endpoint not found", NoMessage)

\* the parameters of a request are read
ReadParams(r, pp, lp, kp) ==
    /\ route' = r
    /\ periodParam' = pp
    /\ keyParam' = kp
    /\ limitParam' = lp
    /\ period' = periodOf(pp)
    /\ limit' = limitOf(lp)
    /\ limitNaN' = limitIsNaN(lp)
    /\ results' = <<>>
    /\ entries' = <<>>
    /\ sorted' = <<>>
    /\ out' = <<>>
    /\ lookups' = <<>>
    /\ answer' = NoAnswer

\* a request of a top route arrives; period and limit are read and the query is sent
ApiRequest(r, pp, lp, kp) ==
    /\ pc = "idle"
    /\ r \in TopRoutes
    /\ ~Rejected(r, pp, kp)
    /\ ReadParams(r, pp, lp, kp)
    /\ op' = OperationOf(r)
    /\ pc' = "query"
    /\ queries' = 1
    /\ response' = NoResponse
    /\ UNCHANGED rangeVars
    /\ UNCHANGED timeVars
    /\ UNCHANGED extVars

\* a request is answered 400 or 404 before any function of queries.ts is called
ApiReject(r, pp, lp, kp) ==
    /\ pc = "idle"
    /\ Rejected(r, pp, kp)
    /\ ReadParams(r, pp, lp, kp)
    /\ op' = "none"
    /\ pc' = "done"
    /\ queries' = 0
    /\ response' = Rejection(r, pp, kp)
    /\ UNCHANGED rangeVars
    /\ UNCHANGED timeVars
    /\ UNCHANGED extVars

\* a request of another route arrives and the query of its function is sent
ApiScopedRequest(r, pp, lp, kp) ==
    /\ pc = "idle"
    /\ r \notin TopRoutes
    /\ ~Rejected(r, pp, kp)
    /\ r \in BucketRoutes => bucketMatch(kp) # <<>>
    /\ ReadParams(r, pp, lp, kp)
    /\ op' = OperationOf(r)
    /\ pc' = "query"
    /\ queries' = 1
    /\ response' = NoResponse
    /\ UNCHANGED rangeVars
    /\ UNCHANGED timeVars
    /\ UNCHANGED extVars

\* a bucket-scoped function throws 'Invalid bucket format' before its query;
\* the catch of handleApiRequest answers
ApiBadBucket(r, pp, lp, kp) ==
    /\ pc = "idle"
    /\ r \in BucketRoutes
    /\ ~Rejected(r, pp, kp)
    /\ bucketMatch(kp) = <<>>
    /\ ReadParams(r, pp, lp, kp)
    /\ op' = OperationOf(r)
    /\ pc' = "done"
    /\ queries' = 0
    /\ response' = InternalError(Message("Invalid bucket format", 0, ""))
    /\ UNCHANGED rangeVars
    /\ UNCHANGED timeVars
    /\ UNCHANGED extVars

\* executeQuery: the store answers with a status that is not 2xx; the Error
\* thrown reaches the catch of handleApiRequest
StoreFails(status, errorText) ==
    /\ pc = "query"
    /\ pc' = "done"
    /\ answer' = Answer(status, errorText)
    /\ response' = InternalError(Message("Analytics Engine query failed", status, errorText))
    /\ UNCHANGED <<op, period, limitParam, limit, results, entries, sorted, out,
                   route, periodParam, keyParam, limitNaN, queries, lookups>>
    /\ UNCHANGED rangeVars
    /\ UNCHANGED timeVars
    /\ UNCHANGED extVars

\* executeQuery: the store answers 2xx with a body that is not JSON;
\* response.json() throws a SyntaxError, whose message may quote the body
StoreGarbled(body, quoted) ==
    /\ pc = "query"
    /\ pc' = "done"
    /\ answer' = Answer(200, body)
    /\ response' = InternalError(Message("Unexpected token", 0, IF quoted THEN body ELSE ""))
    /\ UNCHANGED <<op, period, limitParam, limit, results, entries, sorted, out,
                   route, periodParam, keyParam, limitNaN, queries, lookups>>
    /\ UNCHANGED rangeVars
    /\ UNCHANGED timeVars
    /\ UNCHANGED extVars

\* a function other than getTopUsers and getTopAnonymousUsers maps the rows of
\* executeQuery and returns; the rows themselves are not kept
ScopedRows ==
    /\ pc = "query"
    /\ op \notin Operations
    /\ answer' = JsonAnswer
    /\ pc' = "done"
    /\ response' = Ok(route)
    /\ UNCHANGED <<op, period, limitParam, limit, results, entries, sorted, out,
                   route, periodParam, keyParam, limitNaN, queries, lookups>>
    /\ UNCHANGED rangeVars
    /\ UNCHANGED timeVars
    /\ UNCHANGED extVars

\* getTopUsers after executeQuery: aggregate, sort, slice; then the first lookup
TopUsersRows(rows) ==
    /\ pc = "query"
    /\ op = "getTopUsers"
    /\ answer' = JsonAnswer
    /\ results' = rows
    /\ entries' = userMapOf(rows)
    /\ sorted' = sortedUsersOf(entries', limit)
    /\ IF Len(sorted') = 0
       THEN /\ pc' = "done"
            /\ lookups' = lookups
            /\ response' = Ok(route)
       ELSE /\ pc' = "lookup"
            /\ lookups' = Append(lookups, sorted'[1].key)
            /\ response' = response
    /\ UNCHANGED <<op, period, limitParam, limit, out,
                   route, periodParam, keyParam, limitNaN, queries>>
    /\ UNCHANGED rangeVars
    /\ UNCHANGED timeVars
    /\ UNCHANGED extVars

\* getTopUsers after a lookup in D1: push the entity; then the next lookup or,
\* after the last one, return
TopUsersLookup ==
    /\ pc = "lookup"
    /\ out' = Append(out, TopUser(sorted[Len(out) + 1], period))
    /\ IF Len(out') = Len(sorted)
       THEN /\ pc' = "done"
            /\ lookups' = lookups
            /\ response' = Ok(route)
       ELSE /\ pc' = "lookup"
            /\ lookups' = Append(lookups, sorted[Len(out') + 1].key)
            /\ response' = response
    /\ UNCHANGED <<op, period, limitParam, limit, results, entries, sorted,
                   route, periodParam, keyParam, limitNaN, queries, answer>>
    /\ UNCHANGED rangeVars
    /\ UNCHANGED timeVars
    /\ UNCHANGED extVars

\* getTopUsers: the lookup in D1 throws; the catch of getTopUsers logs and throws
\* again, the catch of handleApiRequest answers
TopUsersLookupThrows(errorText) ==
    /\ pc = "lookup"
    /\ pc' = "done"
    /\ out' = <<>>
    /\ response' = InternalError(Message(errorText, 0, ""))
    /\ UNCHANGED <<op, period, limitParam, limit, results, entries, sorted,
                   route, periodParam, keyParam, limitNaN, queries, lookups, answer>>
    /\ UNCHANGED rangeVars
    /\ UNCHANGED timeVars
    /\ UNCHANGED extVars

\* getTopAnonymousUsers after executeQuery: aggregate, map, sort, slice, return
TopAnonymousRows(rows) ==
    /\ pc = "query"
    /\ op = "getTopAnonymousUsers"
    /\ answer' = JsonAnswer
    /\ results' = rows
    /\ entries' = bucketMapOf(rows)
    /\ sorted' = <<>>
    /\ out' = topAnonymousOf(entries', period, limit)
    /\ pc' = "done"
    /\ response' = Ok(route)
    /\ UNCHANGED <<op, period, limitParam, limit,
                   route, periodParam, keyParam, limitNaN, queries, lookups>>
    /\ UNCHANGED rangeVars
    /\ UNCHANGED timeVars
    /\ UNCHANGED extVars

\* the response has been sent; the worker takes the next request
ApiDone ==
    /\ pc = "done"
    /\ pc' = "idle"
    /\ op' = "none"
    /\ period' = "hour"
    /\ limitParam' = <<>>
    /\ limit' = 0
    /\ results' = <<>>
    /\ entries' = <<>>
    /\ sorted' = <<>>
    /\ out' = <<>>
    /\ route' = ""
    /\ periodParam' = ""
    /\ keyParam' = <<>>
    /\ limitNaN' = FALSE
    /\ queries' = 0
    /\ lookups' = <<>>
    /\ answer' = NoAnswer
    /\ response' = NoResponse
    /\ UNCHANGED rangeVars
    /\ UNCHANGED timeVars
    /\ UNCHANGED extVars

Init == AggIdle /\ RangeIdle /\ TimeIdle /\ ExtIdle

Next ==
    \/ \E r \in TopRoutes, p \in Periods, lp \in LimitParams : ApiRequest(r, p, lp, <<>>)
    \/ \E rows \in Answers(UserRows) : TopUsersRows(rows)
    \/ TopUsersLookup
    \/ \E rows \in Answers(AnonRows) : TopAnonymousRows(rows)
    \/ ApiDone

Spec == Init /\ [][Next]_vars

(***************************************************************************)
(* handleApiRequest on all analytics routes, with the failures of the      *)
(* store and of D1                                                         *)
(***************************************************************************)
\* rows of the getTopUsers query; the last one carries a negative weight
ApiUserRows ==
    {Row(ApiKey(1), "", 200, <<10, 150>>), Row(ApiKey(1), "", 500, <<2, 200>>),
     Row(ApiKey(2), "", 200, <<2, 200>>), Row(ApiKey(3), "", 500, <<1, 150>>),
     Row(ApiKey(3), "", 200, <<-1, 150>>)}

\* rows of the getTopAnonymousUsers query
ApiAnonRows ==
    {Row(IndexKey(3, 200), IpA, 200, <<5, 150>>), Row(OtherKey, IpA, 200, <<1, 120>>),
     Row(IndexKey(30, 200), "", 200, <<-1, 120>>)}

\* the answers of the store: at most MaxApiRows rows, one per group, in any order
ApiAnswers(rows) ==
    UNION {{a \in [1..n -> rows] :
               \A i, j \in 1..n : i # j => GroupOf(a[i]) # GroupOf(a[j])} :
           n \in 0..MaxApiRows}

\* answers of the store that are not response.ok: status and text
StoreStatuses == {429, 500}
StoreTexts == {"", "rate limited"}

\* a body that is not JSON
GarbledBody == "<html>"

\* the message of the error D1 throws
D1Errors == {"D1_ERROR: no such table: api_keys"}

ApiNext ==
    \/ \E r \in Routes, pp \in PeriodParams, lp \in SignedLimitParams, kp \in KeyParams :
          ApiRequest(r, pp, lp, kp)
    \/ \E r \in Routes, pp \in PeriodParams, lp \in SignedLimitParams, kp \in KeyParams :
          ApiReject(r, pp, lp, kp)
    \/ \E r \in Routes, pp \in PeriodParams, lp \in SignedLimitParams, kp \in KeyParams :
          ApiScopedRequest(r, pp, lp, kp)
    \/ \E r \in Routes, pp \in PeriodParams, lp \in SignedLimitParams, kp \in KeyParams :
          ApiBadBucket(r, pp, lp, kp)
    \/ \E status \in StoreStatuses, errorText \in StoreTexts : StoreFails(status, errorText)
    \/ \E quoted \in BOOLEAN : StoreGarbled(GarbledBody, quoted)
    \/ ScopedRows
    \/ \E rows \in ApiAnswers(ApiUserRows) : TopUsersRows(rows)
    \/ TopUsersLookup
    \/ \E errorText \in D1Errors : TopUsersLookupThrows(errorText)
    \/ \E rows \in ApiAnswers(ApiAnonRows) : TopAnonymousRows(rows)
    \/ ApiDone

SpecApi == Init /\ [][ApiNext]_vars

\* The worker runs what follows an await once the awaited answer is there, and
\* sends the response once the handler has returned: ApiDone is weakly fair.
\* Whether the store and D1 answer is not in the hands of the worker: fetch is
\* called without a signal and first() without a timeout, so the actions that
\* begin with an answer carry no fairness.
SpecApiLive == Init /\ [][ApiNext]_vars /\ WF_vars(ApiDone)

(***************************************************************************)
(* Timelines: getUsageTimeline, getUserTimeline, getAnonymousTimeline      *)
(***************************************************************************)
TimelineFunctions == {"getUsageTimeline", "getUserTimeline", "getAnonymousTimeline"}

\* instants, in minutes, at which samples are written and timelines are asked for
TimePoints == {0, 3, 7, 65, 1445}

\* what a sample is about: blob1 (API key, '' for anonymous traffic), index1,
\* double2 (status code)
SampleKinds ==
    {<<ApiKey(1), ApiKey(1), 200>>, <<ApiKey(1), ApiKey(1), 500>>,
     <<<<>>, IndexKey(1, 200), 200>>, <<<<>>, IndexKey(9, 200), 200>>,
     <<<<>>, IndexKey(20, 404), 404>>}

\* a data point written by the proxy: double1 is the response time in ms
Sample(t, kind) ==
    [timestamp |-> t, blob1 |-> kind[1], index1 |-> kind[2], double2 |-> kind[3],
     double1 |-> 100 + t, sampleInterval |-> 2]

\* the apiKey and bucket arguments of the timeline functions
TimelineKeys(f) ==
    CASE f = "getUsageTimeline" -> {<<>>}
      [] f = "getUserTimeline" -> {ApiKey(1), ApiKey(2)}
      [] f = "getAnonymousTimeline" -> {BucketName(1), BucketName(9), AnonPrefix}

\* bucketInterval, in minutes: INTERVAL '5' MINUTE or INTERVAL '1' HOUR
bucketInterval(p) == IF p = "hour" THEN 5 ELSE 60

\* INTERVAL '${interval}' ${intervalUnit}, in minutes: 1 HOUR or 1 DAY
intervalMinutes(p) == IF p = "hour" THEN 60 ELSE 1440

\* variant: the window that ends after the sample, not the one that begins before it
toStartOfInterval_Ceiling(t, w) == ((t + w - 1) \div w) * w

\* toStartOfInterval(timestamp, bucketInterval)
toStartOfInterval(t, w) == (t \div w) * w

\* the WHERE clause of the inner SELECT
TimelineWhere(f, s, p, k, t) ==
    /\ s.timestamp > t - intervalMinutes(p)
    /\ f = "getUserTimeline" => s.blob1 = k
    /\ f = "getAnonymousTimeline" => s.blob1 = <<>> /\ WhereRange(s.index1, k)

\* GROUP BY timeBucket (statusCode 0 stands for no statusCode column), or
\* GROUP BY timeBucket, statusCode
TimelineGroup(f, s, p) ==
    <<toStartOfInterval(s.timestamp, bucketInterval(p)),
      IF f = "getUsageTimeline" THEN 0 ELSE s.double2>>

\* SUM(sampleInterval)
RECURSIVE SumSampleInterval(_)
SumSampleInterval(S) ==
    IF S = {} THEN 0
    ELSE LET s == CHOOSE x \in S : TRUE
         IN s.sampleInterval + SumSampleInterval(S \ {s})

\* SUM(weightedResponseTime), weightedResponseTime being double1 * _sample_interval
RECURSIVE SumWeightedResponseTime(_)
SumWeightedResponseTime(S) ==
    IF S = {} THEN 0
    ELSE LET s == CHOOSE x \in S : TRUE
         IN s.double1 * s.sampleInterval + SumWeightedResponseTime(S \ {s})

\* ORDER BY timeBucket ASC, statusCode ASC
GroupLess(g, h) == g[1] < h[1] \/ (g[1] = h[1] /\ g[2] < h[2])

OrderedGroups(G) ==
    [i \in 1..Cardinality(G) |->
        CHOOSE g \in G : Cardinality({h \in G : GroupLess(h, g)}) = i - 1]

\* results.map(...) on the row of one group: SUM(sampleInterval) and
\* SUM(weightedResponseTime) / SUM(sampleInterval), rounded
TimelinePoint(f, g, rows) ==
    LET requestCount == SumSampleInterval(rows)
        weighted == SumWeightedResponseTime(rows)
    IN IF f = "getUsageTimeline"
       THEN [timestamp |-> g[1], statusCode |-> 0,
             requestCount |-> MathRound(requestCount, 1),
             avgResponseTime |-> RoundedRatio(weighted, requestCount, 100)]
       ELSE [timestamp |-> g[1], statusCode |-> g[2],
             requestCount |-> MathRound(requestCount, 1),
             avgResponseTime |-> RoundedRatio(weighted, requestCount, 100)]

\* the query of a timeline function on the data set at time t, and the map of
\* its rows
timelineOf(f, data, p, k, t) ==
    LET rows == {s \in data : TimelineWhere(f, s, p, k, t)}
        groups == OrderedGroups({TimelineGroup(f, s, p) : s \in rows})
    IN [i \in 1..Len(groups) |->
           TimelinePoint(f, groups[i], {s \in rows : TimelineGroup(f, s, p) = groups[i]})]

\* time passes to the next instant
Tick ==
    /\ tpc = "idle"
    /\ \E t \in TimePoints : t > now
    /\ now' = CHOOSE t \in TimePoints : t > now /\ \A u \in TimePoints : u > now => t <= u
    /\ UNCHANGED <<tpc, dataset, tfn, tperiod, tkey, timeline>>
    /\ UNCHANGED aggVars
    /\ UNCHANGED rangeVars
    /\ UNCHANGED extVars

\* the upstream proxy writes a data point with the current timestamp
WriteDataPoint(kind) ==
    /\ tpc = "idle"
    /\ Cardinality(dataset) < MaxSamples
    /\ dataset' = dataset \cup {Sample(now, kind)}
    /\ UNCHANGED <<tpc, now, tfn, tperiod, tkey, timeline>>
    /\ UNCHANGED aggVars
    /\ UNCHANGED rangeVars
    /\ UNCHANGED extVars

\* a timeline function is called and returns the mapped rows of its query;
\* getAnonymousTimeline throws on a bucket that is not anon_<digits>
TimelineQuery(f, p, k) ==
    /\ tpc = "idle"
    /\ tfn' = f
    /\ tperiod' = p
    /\ tkey' = k
    /\ IF f = "getAnonymousTimeline" /\ bucketMatch(k) = <<>>
       THEN /\ tpc' = "threw"
            /\ timeline' = <<>>
       ELSE /\ tpc' = "returned"
            /\ timeline' = timelineOf(f, dataset, p, k, now)
    /\ UNCHANGED <<now, dataset>>
    /\ UNCHANGED aggVars
    /\ UNCHANGED rangeVars
    /\ UNCHANGED extVars

\* the timeline has been delivered
TimelineReset ==
    /\ tpc \in {"returned", "threw"}
    /\ tpc' = "idle"
    /\ tfn' = "none"
    /\ tperiod' = "hour"
    /\ tkey' = <<>>
    /\ timeline' = <<>>
    /\ UNCHANGED <<now, dataset>>
    /\ UNCHANGED aggVars
    /\ UNCHANGED rangeVars
    /\ UNCHANGED extVars

TimeNext ==
    \/ Tick
    \/ \E kind \in SampleKinds : WriteDataPoint(kind)
    \/ \E f \in TimelineFunctions, p \in Periods : \E k \in TimelineKeys(f) :
          TimelineQuery(f, p, k)
    \/ TimelineReset

SpecTimeline == Init /\ [][TimeNext]_vars

(***************************************************************************)
(* getTopUsers and getTopAnonymousUsers called by requests that are        *)
(* handled concurrently: every await is a point where another request runs *)
(***************************************************************************)
ConcRowA == Row(ApiKey(1), "", 200, <<10, 150>>)
ConcRowB == Row(ApiKey(2), "", 500, <<2, 200>>)
ConcRowC == Row(IndexKey(3, 200), IpA, 200, <<5, 150>>)
ConcRowD == Row(IndexKey(30, 200), "", 200, <<1, 120>>)

\* what the store answers to the query of an operation
ConcAnswers(o) ==
    IF o = "getTopUsers"
    THEN {<<ConcRowA>>, <<ConcRowB>>, <<ConcRowA, ConcRowB>>, <<ConcRowB, ConcRowA>>}
    ELSE {<<ConcRowC>>, <<ConcRowD>>, <<ConcRowC, ConcRowD>>}

ConcLimits == {1, 2}

\* userMapStep from a map that may hold entries already
RECURSIVE userMapFrom(_, _)
userMapFrom(m, rows) ==
    IF Len(rows) = 0 THEN m
    ELSE userMapStep(userMapFrom(m, SubSeq(rows, 1, Len(rows) - 1)), rows[Len(rows)])

RECURSIVE bucketMapFrom(_, _)
bucketMapFrom(m, rows) ==
    IF Len(rows) = 0 THEN m
    ELSE bucketMapStep(bucketMapFrom(m, SubSeq(rows, 1, Len(rows) - 1)), rows[Len(rows)])

\* the map another call has filled last, <<>> when there is none
OtherMap(i) ==
    IF \E j \in RequestIds : j # i /\ reqs[j].entries # <<>>
    THEN reqs[CHOOSE j \in RequestIds : j # i /\ reqs[j].entries # <<>>].entries
    ELSE <<>>

\* request i arrives and its operation sends the query
ConcRequest(i, o, lim) ==
    /\ reqs[i].pc = "idle"
    /\ reqs' = [reqs EXCEPT ![i] = [NoRequest EXCEPT !.pc = "query", !.op = o, !.limit = lim]]
    /\ UNCHANGED aggVars
    /\ UNCHANGED rangeVars
    /\ UNCHANGED timeVars
    /\ UNCHANGED <<workerVars, ipVars, crossVars, dashVars>>

\* variant: userMap is one Map of the module, not a Map of the call
ConcTopUsersRows_ModuleMap(i, rows) ==
    /\ reqs[i].pc = "query"
    /\ reqs[i].op = "getTopUsers"
    /\ LET m == userMapFrom(OtherMap(i), rows)
           kept == sortedUsersOf(m, reqs[i].limit)
       IN reqs' = [reqs EXCEPT ![i] =
                     [@ EXCEPT !.pc = IF Len(kept) = 0 THEN "done" ELSE "lookup",
                               !.results = rows, !.entries = m, !.sorted = kept]]
    /\ UNCHANGED aggVars
    /\ UNCHANGED rangeVars
    /\ UNCHANGED timeVars
    /\ UNCHANGED <<workerVars, ipVars, crossVars, dashVars>>

\* getTopUsers of request i after executeQuery: a new Map is filled, sorted and sliced
ConcTopUsersRows(i, rows) ==
    /\ reqs[i].pc = "query"
    /\ reqs[i].op = "getTopUsers"
    /\ LET m == userMapOf(rows)
           kept == sortedUsersOf(m, reqs[i].limit)
       IN reqs' = [reqs EXCEPT ![i] =
                     [@ EXCEPT !.pc = IF Len(kept) = 0 THEN "done" ELSE "lookup",
                               !.results = rows, !.entries = m, !.sorted = kept]]
    /\ UNCHANGED aggVars
    /\ UNCHANGED rangeVars
    /\ UNCHANGED timeVars
    /\ UNCHANGED <<workerVars, ipVars, crossVars, dashVars>>

\* getTopUsers of request i after a lookup in D1: push; after the last one, return
ConcTopUsersLookup(i) ==
    /\ reqs[i].pc = "lookup"
    /\ LET r == reqs[i]
           pushed == Append(r.out, TopUser(r.sorted[Len(r.out) + 1], "hour"))
       IN reqs' = [reqs EXCEPT ![i] =
                     [@ EXCEPT !.out = pushed,
                               !.pc = IF Len(pushed) = Len(r.sorted) THEN "done" ELSE "lookup"]]
    /\ UNCHANGED aggVars
    /\ UNCHANGED rangeVars
    /\ UNCHANGED timeVars
    /\ UNCHANGED <<workerVars, ipVars, crossVars, dashVars>>

\* getTopAnonymousUsers of request i after executeQuery
ConcTopAnonymousRows(i, rows) ==
    /\ reqs[i].pc = "query"
    /\ reqs[i].op = "getTopAnonymousUsers"
    /\ LET m == bucketMapOf(rows)
       IN reqs' = [reqs EXCEPT ![i] =
                     [@ EXCEPT !.pc = "done", !.results = rows, !.entries = m,
                               !.out = topAnonymousOf(m, "hour", reqs[i].limit)]]
    /\ UNCHANGED aggVars
    /\ UNCHANGED rangeVars
    /\ UNCHANGED timeVars
    /\ UNCHANGED <<workerVars, ipVars, crossVars, dashVars>>

\* the response of request i has been sent
ConcDone(i) ==
    /\ reqs[i].pc = "done"
    /\ reqs' = [reqs EXCEPT ![i] = NoRequest]
    /\ UNCHANGED aggVars
    /\ UNCHANGED rangeVars
    /\ UNCHANGED timeVars
    /\ UNCHANGED <<workerVars, ipVars, crossVars, dashVars>>

ConcNext ==
    \/ \E i \in RequestIds, o \in Operations, lim \in ConcLimits : ConcRequest(i, o, lim)
    \/ \E i \in RequestIds : \E rows \in ConcAnswers("getTopUsers") : ConcTopUsersRows(i, rows)
    \/ \E i \in RequestIds : ConcTopUsersLookup(i)
    \/ \E i \in RequestIds : \E rows \in ConcAnswers("getTopAnonymousUsers") :
          ConcTopAnonymousRows(i, rows)
    \/ \E i \in RequestIds : ConcDone(i)

SpecConc == Init /\ [][ConcNext]_vars

(***************************************************************************)
(* The worker of the password-protected revision: fetch, checkAuth and     *)
(* the routes of handleApiRequest that reach the store or D1               *)
(***************************************************************************)
Space == 32
Colon == 58
Equals == 61
\* "basic"
BasicLower == <<98, 97, 115, 105, 99>>
\* env.DASHBOARD_PASSWORD: "pw"
DashboardPassword == <<112, 119>>

\* authorization.split(' ')[0]
RECURSIVE FirstPart(_)
FirstPart(s) ==
    IF Len(s) = 0 \/ s[1] = Space THEN <<>>
    ELSE <<s[1]>> \o FirstPart(Tail(s))

\* authorization.split(' ')[1], <<>> when undefined or empty
SecondPart(s) ==
    LET n == Len(FirstPart(s))
    IN IF n = Len(s) THEN <<>> ELSE FirstPart(SubSeq(s, n + 2, Len(s)))

\* String.prototype.toLowerCase on ASCII
toLowerCase(s) == [i \in 1..Len(s) |-> IF s[i] >= 65 /\ s[i] <= 90 THEN s[i] + 32 ELSE s[i]]

\* String.prototype.indexOf of one character, counted from 0, -1 when absent
indexOf(s, c) ==
    IF \E i \in 1..Len(s) : s[i] = c
    THEN (CHOOSE i \in 1..Len(s) : s[i] = c /\ \A j \in 1..(i - 1) : s[j] # c) - 1
    ELSE 0 - 1

\* String.prototype.substring(from), from counted from 0
substring(s, from) == SubSeq(s, from + 1, Len(s))

\* value of a character of the base64 alphabet, -1 for any other character
B64Value(c) ==
    IF c >= 65 /\ c <= 90 THEN c - 65
    ELSE IF c >= 97 /\ c <= 122 THEN c - 71
    ELSE IF c >= 48 /\ c <= 57 THEN c + 4
    ELSE IF c = 43 THEN 62
    ELSE IF c = 47 THEN 63
    ELSE 0 - 1

\* atob removes ASCII whitespace first
RECURSIVE StripWhitespace(_)
StripWhitespace(s) ==
    IF Len(s) = 0 THEN <<>>
    ELSE IF s[1] \in {9, 10, 12, 13, 32} THEN StripWhitespace(Tail(s))
    ELSE <<s[1]>> \o StripWhitespace(Tail(s))

\* then one or two '=' at the end when the length is a multiple of 4
StripPadding(s) ==
    IF Len(s) > 0 /\ Len(s) % 4 = 0 /\ s[Len(s)] = Equals
    THEN IF s[Len(s) - 1] = Equals THEN SubSeq(s, 1, Len(s) - 2)
         ELSE SubSeq(s, 1, Len(s) - 1)
    ELSE s

\* the bytes of a string of the alphabet: 4 characters make 3 bytes, the
\* bits left over at the end are dropped
RECURSIVE B64Bytes(_)
B64Bytes(s) ==
    IF Len(s) < 2 THEN <<>>
    ELSE LET b1 == B64Value(s[1]) * 4 + B64Value(s[2]) \div 16
         IN IF Len(s) = 2 THEN <<b1>>
            ELSE LET b2 == (B64Value(s[2]) % 16) * 16 + B64Value(s[3]) \div 4
                 IN IF Len(s) = 3 THEN <<b1, b2>>
                    ELSE <<b1, b2, (B64Value(s[3]) % 4) * 64 + B64Value(s[4])>>
                         \o B64Bytes(SubSeq(s, 5, Len(s)))

\* atob(encoded): ok is FALSE where atob throws InvalidCharacterError
atob(encoded) ==
    LET t == StripPadding(StripWhitespace(encoded))
    IN IF Len(t) % 4 = 1 \/ \E i \in 1..Len(t) : B64Value(t[i]) = 0 - 1
       THEN [ok |-> FALSE, text |-> <<>>]
       ELSE [ok |-> TRUE, text |-> B64Bytes(t)]

\* variant: the password is not compared
checkAuth_AnyPassword(authorization) ==
    IF authorization = <<>> THEN "Authentication required"
    ELSE LET scheme == FirstPart(authorization)
             encoded == SecondPart(authorization)
         IN IF scheme = <<>> \/ toLowerCase(scheme) # BasicLower
            THEN "Invalid authentication scheme"
            ELSE IF encoded = <<>> THEN "Invalid authentication credentials"
            ELSE LET decoded == atob(encoded)
                     colonIndex == indexOf(decoded.text, Colon)
                 IN IF ~decoded.ok THEN "Invalid authentication encoding"
                    ELSE IF colonIndex = 0 - 1 THEN "Invalid authentication format"
                    ELSE "null"

\* checkAuth: the text of the 401 response, "null" when the request may pass
checkAuth(authorization) ==
    IF authorization = <<>> THEN "Authentication required"
    ELSE LET scheme == FirstPart(authorization)
             encoded == SecondPart(authorization)
         IN IF scheme = <<>> \/ toLowerCase(scheme) # BasicLower
            THEN "Invalid authentication scheme"
            ELSE IF encoded = <<>> THEN "Invalid authentication credentials"
            ELSE LET decoded == atob(encoded)
                     colonIndex == indexOf(decoded.text, Colon)
                 IN IF ~decoded.ok THEN "Invalid authentication encoding"
                    ELSE IF colonIndex = 0 - 1 THEN "Invalid authentication format"
                    ELSE IF substring(decoded.text, colonIndex + 1) # DashboardPassword
                    THEN "Invalid password"
                    ELSE "null"

\* "Basic " and "basic "
BasicSp == <<66, 97, 115, 105, 99, Space>>
BasicLowerSp == BasicLower \o <<Space>>
\* "Bearer "
BearerSp == <<66, 101, 97, 114, 101, 114, Space>>
\* btoa("u:pw") = "dTpwdw=="
CredUPw == <<100, 84, 112, 119, 100, 119, 61, 61>>

\* the Authorization headers requests arrive with; <<>> is no header
Authorizations ==
    { <<>>,
      BasicSp \o CredUPw,                                      \* u:pw
      BasicLowerSp \o <<79, 110, 66, 51>>,                     \* basic, ":pw"
      BasicSp \o <<100, 84, 112, 119, 100, 119>>,              \* u:pw without padding
      BasicSp \o CredUPw \o <<Space, 120>>,                    \* u:pw and a third part
      BasicSp \o <<99, 72, 99, 61>>,                           \* "pw": no colon
      BasicSp \o <<100, 84, 112, 119, 101, 65, 61, 61>>,       \* u:px
      BasicSp \o <<89, 84, 112, 105, 79, 110, 66, 51>>,        \* a:b:pw
      BasicSp \o <<99, 72, 99, 54, 100, 81, 61, 61>>,          \* pw:u
      BearerSp \o CredUPw,                                     \* another scheme
      <<66, 97, 115, 105, 99>>,                                \* "Basic" alone
      BasicSp \o <<Space>> \o CredUPw,                         \* two spaces
      BasicSp \o <<100>>,                                      \* one character: atob throws
      BasicSp \o <<100, 84, 112, 42, 100, 119, 61, 61>> }      \* '*': atob throws

Methods == {"GET", "OPTIONS", "PATCH", "POST"}
PagePaths == {"/", "/index.html", "/api-keys", "/api-keys.html"}
\* routes of handleApiRequest whose operation sends a query to the store
AnalyticsPaths == {"/api/top-users", "/api/usage-timeline"}
ApiKeysPath == "/api/api-keys"
\* the paths for which url.pathname.startsWith('/api/') holds
ApiPaths == AnalyticsPaths \cup {ApiKeysPath, "/api/nope"}
Paths == {"/", "/api-keys", "/nope"} \cup ApiPaths

\* the JSON bodies of PATCH requests: id 0 stands for a missing id as well
PatchBodies ==
    [parses : {TRUE}, id : 0..(MaxKeyId + 1), name : {"undefined", "n"},
     max_per_second : {NoNumber, 5}]

WorkerRequests ==
    { r \in [method : Methods, path : Paths, authorization : Authorizations,
             periodParam : {"", "week"}, body : PatchBodies \cup {NoBody}] :
        /\ (r.body # NoBody => r.method = "PATCH" /\ r.path = ApiKeysPath)
        /\ (r.path \notin ApiPaths => r.periodParam = "") }

WorkerAnswer(status, text) == [status |-> status, text |-> text]

\* handleApiRequest up to its first await or its return: pc "done" with the
\* response, or the await it stops at
handleApiRequestSync(r) ==
    IF ~validPeriod(periodOf(r.periodParam))
    THEN [pc |-> "done", resp |-> WorkerAnswer(400, "Invalid period. Use \"hour\" or \"day\".")]
    ELSE IF r.path \in AnalyticsPaths
    THEN [pc |-> "query", resp |-> NoWorkerResponse]
    ELSE IF r.path = ApiKeysPath /\ r.method = "GET"
    THEN [pc |-> "all", resp |-> NoWorkerResponse]
    ELSE IF r.path = ApiKeysPath /\ r.method = "PATCH"
    THEN IF ~r.body.parses
         THEN [pc |-> "done", resp |-> WorkerAnswer(500, "Failed to update API key")]
         ELSE IF r.body.id = 0
         THEN [pc |-> "done", resp |-> WorkerAnswer(400, "Missing required field: id")]
         ELSE IF r.body.name = "undefined" /\ r.body.max_per_second = NoNumber
         THEN [pc |-> "done", resp |-> WorkerAnswer(400, "No fields to update")]
         ELSE [pc |-> "run", resp |-> NoWorkerResponse]
    ELSE [pc |-> "done", resp |-> WorkerAnswer(404, "API endpoint not found")]

\* fetch up to the first await or the return
fetchSync(r) ==
    IF r.method = "OPTIONS" THEN [pc |-> "done", resp |-> WorkerAnswer(204, "")]
    ELSE IF checkAuth(r.authorization) # "null"
    THEN [pc |-> "done", resp |-> WorkerAnswer(401, checkAuth(r.authorization))]
    ELSE IF r.path \in ApiPaths THEN handleApiRequestSync(r)
    ELSE IF r.path \in PagePaths THEN [pc |-> "done", resp |-> WorkerAnswer(200, "html")]
    ELSE [pc |-> "done", resp |-> WorkerAnswer(404, "Not Found")]

\* UPDATE api_keys_archive SET ... WHERE id = ?
UpdateApiKey(table, body) ==
    [i \in KeyIds |->
        IF i # body.id THEN table[i]
        ELSE [name |-> IF body.name # "undefined" THEN body.name ELSE table[i].name,
              max_per_second |-> IF body.max_per_second # NoNumber
                                 THEN body.max_per_second
                                 ELSE table[i].max_per_second]]

otherThanWorker == <<concVars, ipVars, crossVars, dashVars>>

\* a request arrives: fetch runs to its first await or to its return
WorkerFetch(r) ==
    /\ wpc = "idle"
    /\ wreq' = r
    /\ wpc' = fetchSync(r).pc
    /\ wresp' = fetchSync(r).resp
    /\ wqueries' = IF fetchSync(r).pc = "query" THEN 1 ELSE 0
    /\ wreads' = 0
    /\ wwrites' = 0
    /\ UNCHANGED db
    /\ UNCHANGED coreVars
    /\ UNCHANGED otherThanWorker

\* the store answers the query of executeQuery
WorkerStoreAnswers(ok) ==
    /\ wpc = "query"
    /\ IF ~ok
       THEN wpc' = "done" /\ wresp' = WorkerAnswer(500, "Internal server error")
       ELSE IF wreq.path = "/api/top-users"
       THEN wpc' = "lookup" /\ UNCHANGED wresp
       ELSE wpc' = "done" /\ wresp' = WorkerAnswer(200, "json")
    /\ UNCHANGED <<wreq, wqueries, wreads, wwrites, db>>
    /\ UNCHANGED coreVars
    /\ UNCHANGED otherThanWorker

\* D1 answers the SELECT of getTopUsers for the user ranked first
WorkerLookupAnswers ==
    /\ wpc = "lookup"
    /\ wpc' = "done"
    /\ wreads' = wreads + 1
    /\ wresp' = WorkerAnswer(200, "json")
    /\ UNCHANGED <<wreq, wqueries, wwrites, db>>
    /\ UNCHANGED coreVars
    /\ UNCHANGED otherThanWorker

\* D1 answers SELECT ... FROM api_keys_archive of GET /api/api-keys
WorkerAllAnswers(ok) ==
    /\ wpc = "all"
    /\ wpc' = "done"
    /\ wreads' = wreads + 1
    /\ wresp' = IF ok THEN WorkerAnswer(200, "json")
                ELSE WorkerAnswer(500, "Failed to fetch API keys")
    /\ UNCHANGED <<wreq, wqueries, wwrites, db>>
    /\ UNCHANGED coreVars
    /\ UNCHANGED otherThanWorker

\* D1 runs the UPDATE of PATCH /api/api-keys, or fails to
WorkerRunAnswers(ok) ==
    /\ wpc = "run"
    /\ wpc' = "done"
    /\ IF ok
       THEN /\ db' = UpdateApiKey(db, wreq.body)
            /\ wwrites' = wwrites + 1
            /\ wresp' = WorkerAnswer(200, "API key updated successfully")
       ELSE /\ UNCHANGED <<db, wwrites>>
            /\ wresp' = WorkerAnswer(500, "Failed to update API key")
    /\ UNCHANGED <<wreq, wqueries, wreads>>
    /\ UNCHANGED coreVars
    /\ UNCHANGED otherThanWorker

\* the response has been sent
WorkerDone ==
    /\ wpc = "done"
    /\ wpc' = "idle"
    /\ wreq' = NoWorkerRequest
    /\ wresp' = NoWorkerResponse
    /\ wqueries' = 0
    /\ wreads' = 0
    /\ wwrites' = 0
    /\ UNCHANGED db
    /\ UNCHANGED coreVars
    /\ UNCHANGED otherThanWorker

WorkerNext ==
    \/ \E r \in WorkerRequests : WorkerFetch(r)
    \/ \E ok \in BOOLEAN : WorkerStoreAnswers(ok)
    \/ WorkerLookupAnswers
    \/ \E ok \in BOOLEAN : WorkerAllAnswers(ok)
    \/ \E ok \in BOOLEAN : WorkerRunAnswers(ok)
    \/ WorkerDone

SpecWorker == Init /\ [][WorkerNext]_vars


(***************************************************************************)
(* An anonymous bucket in the ranking and in its detail view:              *)
(* getTopAnonymousUsers and getAnonymousStatusBreakdown on one data set    *)
(***************************************************************************)
\* limit=100 of the overview of the dashboard
OverviewLimit == 100

\* the samples written here all took 100 ms, so that the average of a group
\* is a whole number
CrossSample(t, kind) == [Sample(t, kind) EXCEPT !.double1 = 100]

\* WHERE timestamp > NOW() - INTERVAL ... AND blob1 = ''
AnonymousWhere(s, p, t) == s.timestamp > t - intervalMinutes(p) /\ s.blob1 = <<>>

\* the orders in which a query with ORDER BY requestCount DESC may return the
\* groups G: rows of one requestCount come in any order
DescOrders(G, data) ==
    { q \in [1..Cardinality(G) -> G] :
        /\ \A i, j \in 1..Cardinality(G) : i # j => q[i] # q[j]
        /\ \A i, j \in 1..Cardinality(G) :
              i < j => SumSampleInterval({s \in data : s \in q[i]})
                          >= SumSampleInterval({s \in data : s \in q[j]}) }

\* the groups of GROUP BY index1, blob2, double2: no sample here has a blob2
TopAnonymousGroups(data, p, t) ==
    LET rows == {s \in data : AnonymousWhere(s, p, t)}
    IN { {s \in rows : s.index1 = r.index1 /\ s.double2 = r.double2} : r \in rows }

\* the row of one group
TopAnonymousRow(g) ==
    LET s == CHOOSE x \in g : TRUE
    IN Row(s.index1, "", s.double2,
           <<SumSampleInterval(g), SumWeightedResponseTime(g) \div SumSampleInterval(g)>>)

\* the results of the query of getTopAnonymousUsers, in every order it may have
TopAnonymousResults(data, p, t) ==
    { [i \in 1..Len(q) |-> TopAnonymousRow(q[i])] :
        q \in DescOrders(TopAnonymousGroups(data, p, t), data) }

\* the groups of GROUP BY double2 of getAnonymousStatusBreakdown
BreakdownGroups(data, b, p, t) ==
    LET rows == {s \in data : AnonymousWhere(s, p, t) /\ WhereRange(s.index1, b)}
    IN { {s \in rows : s.double2 = r.double2} : r \in rows }

RECURSIVE SumRequestCount(_)
SumRequestCount(rows) ==
    IF Len(rows) = 0 THEN 0
    ELSE rows[1].requestCount + SumRequestCount(Tail(rows))

\* results.map(...) of getAnonymousStatusBreakdown on the groups in order q
StatusBreakdown(q) ==
    LET rows0 == [i \in 1..Len(q) |->
                       [statusCode |-> (CHOOSE x \in q[i] : TRUE).double2,
                        requestCount |-> SumSampleInterval(q[i])]]
        total == SumRequestCount(rows0)
    IN [i \in 1..Len(q) |->
           [statusCode |-> rows0[i].statusCode,
            requestCount |-> MathRound(rows0[i].requestCount, 1),
            percentage |-> RoundedRatio(rows0[i].requestCount, total, 10000)]]

otherThanCross == <<concVars, workerVars, ipVars, dashVars>>

\* the upstream proxy writes a data point of 100 ms
CrossWrite(kind) ==
    /\ cpc = "idle"
    /\ Cardinality(dataset) < MaxSamples
    /\ dataset' = dataset \cup {CrossSample(now, kind)}
    /\ UNCHANGED <<tpc, now, tfn, tperiod, tkey, timeline>>
    /\ UNCHANGED aggVars
    /\ UNCHANGED rangeVars
    /\ UNCHANGED extVars

\* time passes while the dashboard shows nothing
CrossTick ==
    /\ cpc = "idle"
    /\ Tick

\* the overview is loaded: getTopAnonymousUsers(env, period, 100)
CrossRank(p) ==
    /\ cpc = "idle"
    /\ cpc' = "ranked"
    /\ cperiod' = p
    /\ \E rows0 \in TopAnonymousResults(dataset, p, now) :
          ranked' = topAnonymousOf(bucketMapOf(rows0), p, OverviewLimit)
    /\ UNCHANGED <<cbucket, breakdown>>
    /\ UNCHANGED coreVars
    /\ UNCHANGED otherThanCross

\* row i is clicked: getAnonymousStatusBreakdown(env, bucket, period); it
\* throws on a bucket that is not anon_<digits>
CrossBreakdown(i) ==
    /\ cpc = "ranked"
    /\ i \in 1..Len(ranked)
    /\ cbucket' = ranked[i].key
    /\ IF bucketMatch(ranked[i].key) = <<>>
       THEN cpc' = "threw" /\ breakdown' = <<>>
       ELSE /\ cpc' = "detail"
            /\ \E q \in DescOrders(BreakdownGroups(dataset, ranked[i].key, cperiod, now),
                                   dataset) :
                  breakdown' = StatusBreakdown(q)
    /\ UNCHANGED <<ranked, cperiod>>
    /\ UNCHANGED coreVars
    /\ UNCHANGED otherThanCross

\* back to an empty page
CrossReset ==
    /\ cpc \in {"ranked", "detail", "threw"}
    /\ cpc' = "idle"
    /\ ranked' = <<>>
    /\ cperiod' = "hour"
    /\ cbucket' = <<>>
    /\ breakdown' = <<>>
    /\ UNCHANGED coreVars
    /\ UNCHANGED otherThanCross

CrossNext ==
    \/ \E kind \in SampleKinds : CrossWrite(kind)
    \/ CrossTick
    \/ \E p \in Periods : CrossRank(p)
    \/ \E i \in 1..MaxSamples : CrossBreakdown(i)
    \/ CrossReset

SpecCross == Init /\ [][CrossNext]_vars


(***************************************************************************)
(* The script of the dashboard: the click handlers and loadData            *)
(***************************************************************************)
ViewTypes == {"overview", "user", "anonymous"}

otherThanDash == <<concVars, workerVars, ipVars, crossVars>>

\* loadData up to its await: hideError(), and the requests are sent with the
\* currentPeriod and for the currentView of this moment
loadData(p, v) ==
    /\ loads' = loads \cup {[n |-> clicks + 1, period |-> p, view |-> v]}
    /\ rendered' = [rendered EXCEPT !.error = FALSE]
    /\ clicks' = clicks + 1

\* DOMContentLoaded: loadFromURL finds no parameter and calls showOverview
DashOpen ==
    /\ clicks = 0
    /\ currentView' = "overview"
    /\ UNCHANGED currentPeriod
    /\ loadData(currentPeriod, "overview")
    /\ UNCHANGED coreVars
    /\ UNCHANGED otherThanDash

\* click on Last Hour or Last 24 Hours
ClickPeriod(p) ==
    /\ clicks >= 1
    /\ clicks < MaxClicks
    /\ currentPeriod' = p
    /\ UNCHANGED currentView
    /\ loadData(p, currentView)
    /\ UNCHANGED coreVars
    /\ UNCHANGED otherThanDash

\* click on Refresh
ClickRefresh ==
    /\ clicks >= 1
    /\ clicks < MaxClicks
    /\ UNCHANGED <<currentPeriod, currentView>>
    /\ loadData(currentPeriod, currentView)
    /\ UNCHANGED coreVars
    /\ UNCHANGED otherThanDash

\* click on a row of one of the tables of the overview
ClickRow(v) ==
    /\ clicks >= 1
    /\ clicks < MaxClicks
    /\ rendered.view = "overview"
    /\ v \in {"user", "anonymous"}
    /\ currentView' = v
    /\ UNCHANGED currentPeriod
    /\ loadData(currentPeriod, v)
    /\ UNCHANGED coreVars
    /\ UNCHANGED otherThanDash

\* click on Back to overview: showOverview
ClickBack ==
    /\ clicks >= 1
    /\ clicks < MaxClicks
    /\ rendered.view \in {"user", "anonymous"}
    /\ currentView' = "overview"
    /\ UNCHANGED currentPeriod
    /\ loadData(currentPeriod, "overview")
    /\ UNCHANGED coreVars
    /\ UNCHANGED otherThanDash

\* the responses of a call have all arrived: loadData goes on after its await
\* and renders them in the branch it took
LoadCompletes(l) ==
    /\ l \in loads
    /\ loads' = loads \ {l}
    /\ rendered' = [period |-> l.period, view |-> l.view, error |-> rendered.error]
    /\ UNCHANGED <<currentPeriod, currentView, clicks>>
    /\ UNCHANGED coreVars
    /\ UNCHANGED otherThanDash

\* a request of a call failed: catch, showError
LoadFails(l) ==
    /\ l \in loads
    /\ loads' = loads \ {l}
    /\ rendered' = [rendered EXCEPT !.error = TRUE]
    /\ UNCHANGED <<currentPeriod, currentView, clicks>>
    /\ UNCHANGED coreVars
    /\ UNCHANGED otherThanDash

\* the calls that can be in flight
Loads == [n : 1..MaxClicks, period : Periods, view : ViewTypes]

DashNext ==
    \/ DashOpen
    \/ \E p \in Periods : ClickPeriod(p)
    \/ ClickRefresh
    \/ \E v \in ViewTypes : ClickRow(v)
    \/ ClickBack
    \/ \E l \in Loads : LoadCompletes(l)
    \/ \E l \in Loads : LoadFails(l)

SpecDash == Init /\ [][DashNext]_vars


(***************************************************************************)
(* /api/ip-info and the cache of IP lookups                                *)
(***************************************************************************)
\* 1 hour in milliseconds
IP_CACHE_TTL == 3600000

\* the values of Date.now() at which something happens
Instants == {0, 1, 3600000, 3600001}

\* what the fetch of the geolocation service comes to: it throws, or a
\* response arrives that is not OK, or OK with a body that JSON.parse
\* rejects, or with the JSON of an object of status 'fail' or 'success', or
\* with the JSON text null or 0
HttpOutcomes == {"notOk", "unparsable", "fail", "success", "null", "zero"}
ServiceOutcomes == {"threw"} \cup HttpOutcomes

\* if (cached): every object is truthy, null and 0 are not
Truthy(data) == data \notin {"null", "zero"}

\* variant: an entry of age IP_CACHE_TTL is still served
CacheHit_Inclusive(entry, t) == entry.present /\ t - entry.timestamp <= IP_CACHE_TTL

\* cached && Date.now() - cached.timestamp < IP_CACHE_TTL
CacheHit(entry, t) == entry.present /\ t - entry.timestamp < IP_CACHE_TTL

\* getCachedIpInfo(ip): what it returns
getCachedIpInfo(cache, ip, t) ==
    IF CacheHit(cache[ip], t) THEN cache[ip].data ELSE "null"

\* getCachedIpInfo(ip): the cache it leaves, an expired entry being deleted
CacheAfterGet(cache, ip, t) ==
    IF ~CacheHit(cache[ip], t) /\ cache[ip].present
    THEN [cache EXCEPT ![ip] = NoEntry]
    ELSE cache

\* setCachedIpInfo(ip, data)
setCachedIpInfo(cache, ip, data, t) ==
    [cache EXCEPT ![ip] = [present |-> TRUE, data |-> data, timestamp |-> t]]

IpAnswer(status, body, outcome) ==
    [status |-> status, body |-> body, outcome |-> outcome, at |-> clock]

otherThanIp == <<concVars, workerVars, crossVars, dashVars>>

\* GET /api/ip-info without ip parameter
IpMissing ==
    /\ ipc = "idle"
    /\ ipc' = "done"
    /\ ipResp' = IpAnswer(400, "ip parameter is required", "none")
    /\ UNCHANGED <<clock, ipCache, ipReq, ipFetches, ipServed, ipAnswered>>
    /\ UNCHANGED coreVars
    /\ UNCHANGED otherThanIp

\* GET /api/ip-info?ip=a: the cache is asked; a truthy value is the response,
\* otherwise the geolocation service is fetched
IpRequest(a) ==
    /\ ipc = "idle"
    /\ ipReq' = a
    /\ ipServed' = [present |-> ipCache[a].present,
                    age |-> IF ipCache[a].present THEN clock - ipCache[a].timestamp ELSE 0,
                    hit |-> getCachedIpInfo(ipCache, a, clock) # "null",
                    at |-> clock]
    /\ ipCache' = CacheAfterGet(ipCache, a, clock)
    /\ IF Truthy(getCachedIpInfo(ipCache, a, clock))
       THEN /\ ipc' = "done"
            /\ ipResp' = IpAnswer(200, getCachedIpInfo(ipCache, a, clock), "cached")
            /\ ipFetches' = 0
       ELSE /\ ipc' = "fetch"
            /\ ipResp' = NoIpResponse
            /\ ipFetches' = 1
    /\ UNCHANGED <<clock, ipAnswered>>
    /\ UNCHANGED coreVars
    /\ UNCHANGED otherThanIp

\* the fetch of the service settles and the handler runs to its return
IpServiceAnswers(outcome) ==
    /\ ipc = "fetch"
    /\ ipc' = "done"
    /\ CASE outcome = "threw" ->
              /\ ipResp' = IpAnswer(200, "Lookup failed", outcome)
              /\ UNCHANGED ipCache
         [] outcome = "notOk" ->
              /\ ipResp' = IpAnswer(200, "Rate limited or unavailable", outcome)
              /\ ipCache' = setCachedIpInfo(ipCache, ipReq, "Rate limited or unavailable", clock)
         [] outcome = "unparsable" ->
              /\ ipResp' = IpAnswer(200, "Invalid response", outcome)
              /\ ipCache' = setCachedIpInfo(ipCache, ipReq, "Invalid response", clock)
         [] outcome = "null" ->
              \* ipData.status of null throws a TypeError: the outer catch
              /\ ipResp' = IpAnswer(200, "Lookup failed", outcome)
              /\ UNCHANGED ipCache
         [] outcome \in {"fail", "success", "zero"} ->
              /\ ipResp' = IpAnswer(200, outcome, outcome)
              /\ ipCache' = setCachedIpInfo(ipCache, ipReq, outcome, clock)
    /\ UNCHANGED <<clock, ipReq, ipFetches, ipServed, ipAnswered>>
    /\ UNCHANGED coreVars
    /\ UNCHANGED otherThanIp

\* the response has been sent; ipAnswered keeps when a request ended that the
\* service had answered with an HTTP response
IpDone ==
    /\ ipc = "done"
    /\ ipc' = "idle"
    /\ ipAnswered' = IF ipResp.outcome \in HttpOutcomes
                     THEN [ipAnswered EXCEPT ![ipReq] = ipResp.at]
                     ELSE ipAnswered
    /\ ipReq' = ""
    /\ ipResp' = NoIpResponse
    /\ ipFetches' = 0
    /\ ipServed' = NoCacheLookup
    /\ UNCHANGED <<clock, ipCache>>
    /\ UNCHANGED coreVars
    /\ UNCHANGED otherThanIp

\* time passes to the next instant
IpTick ==
    /\ \E t \in Instants : t > clock
    /\ clock' = CHOOSE t \in Instants : t > clock /\ \A u \in Instants : u > clock => t <= u
    /\ UNCHANGED <<ipc, ipCache, ipReq, ipResp, ipFetches, ipServed, ipAnswered>>
    /\ UNCHANGED coreVars
    /\ UNCHANGED otherThanIp

IpNext ==
    \/ IpMissing
    \/ \E a \in IpAddresses : IpRequest(a)
    \/ \E outcome \in ServiceOutcomes : IpServiceAnswers(outcome)
    \/ IpDone
    \/ IpTick

SpecIpInfo == Init /\ [][IpNext]_vars


(***************************************************************************)
(* Claims about the bucket range                                           *)
(***************************************************************************)
\* bucket id of an index key anon_<digits>_...
KeyBucketId(key) == parseInt(LeadingDigits(SubSeq(key, Len(AnonPrefix) + 1, Len(key))))

\* bucket id a well-formed bucket parameter names
ParamBucketId(b) == parseInt(bucketMatch(b))

\* C2: the range built for bucket N selects every key anon_N_S of that bucket
\* (lower <= key < upper), also when N + 1 has one more digit than N.
C2_RangeSelectsOwnBucket ==
    (rpc = "queried" /\ KeyBucketId(index1) = ParamBucketId(bucket)) => selected

\* C3: the range built for bucket N selects no key anon_M_S of another bucket M.
C3_RangeSelectsNoOtherBucket ==
    (rpc = "queried" /\ KeyBucketId(index1) # ParamBucketId(bucket)) => ~selected

\* C4: the range of bucket 1 contains anon_1_200 and anon_1_404 and contains
\* neither anon_10_200 nor anon_2_200.
C4_RegressionCases ==
    (rpc = "queried" /\ bucket = BucketName(1)) =>
        /\ index1 \in {IndexKey(1, 200), IndexKey(1, 404)} => selected
        /\ index1 \in {IndexKey(10, 200), IndexKey(2, 200)} => ~selected

C4_Witness ==
    /\ rpc = "queried"
    /\ bucket = BucketName(1)
    /\ index1 = IndexKey(10, 200)
    /\ ~selected

(***************************************************************************)
(* Claims about the aggregation                                            *)
(***************************************************************************)
RECURSIVE SumOver(_, _)
SumOver(I, f) ==
    IF I = {} THEN 0
    ELSE LET i == CHOOSE x \in I : TRUE IN f[i] + SumOver(I \ {i}, f)

\* the rows of the answer that carry the primary key k: the API key itself, or
\* an index key of the form anon_B_S for the bucket anon_B
CarriesKey(r, k) ==
    IF op = "getTopUsers" THEN r.key = k
    ELSE \E b \in AnonBucketIds :
            k = BucketName(b) /\ \E s \in StatusCodes : r.key = IndexKey(b, s)

RowsOfKey(k) == {i \in 1..Len(results) : CarriesKey(results[i], k)}

WeightOfKey(k) ==
    SumOver(RowsOfKey(k), [i \in 1..Len(results) |-> results[i].requestCount])

ResponseTimeOfKey(k) ==
    SumOver(RowsOfKey(k),
            [i \in 1..Len(results) |-> results[i].avgResponseTime * results[i].requestCount])

SuccessOfKey(k) ==
    SumOver(RowsOfKey(k), [i \in 1..Len(results) |-> results[i].successCount])

StatusesOfKey(k) == {results[i].statusCode : i \in RowsOfKey(k)}

Emitted == {out[i] : i \in 1..Len(out)}

\* C1: the requestCount of every emitted entity is the sum of the requestCount of
\* exactly the rows that carry its key, whatever their status codes.
C1_WeightConservation ==
    \A e \in Emitted : e.requestCount = WeightOfKey(e.key)

C1_Witness ==
    /\ pc = "done"
    /\ \E e \in Emitted :
          /\ Cardinality(StatusesOfKey(e.key)) >= 2
          /\ e.requestCount = 12
          /\ \E i \in 1..Len(results) :
                ~CarriesKey(results[i], e.key) /\ results[i].requestCount > 0

\* C5: getTopAnonymousUsers merges all rows anon_B_S of a bucket B into one entry
\* for B, never has two entries for one bucket, and merges no row of another
\* bucket into it.
C5_BucketCollapsing ==
    (op = "getTopAnonymousUsers" /\ pc = "done") =>
        /\ \A i, j \in 1..Len(out) : i # j => out[i].key # out[j].key
        /\ \A b \in AnonBucketIds :
              RowsOfKey(BucketName(b)) # {} =>
                 /\ Cardinality({i \in 1..Len(entries) : entries[i].key = BucketName(b)}) = 1
                 /\ Len(entries) <= limit =>
                       Cardinality({i \in 1..Len(out) : out[i].key = BucketName(b)}) = 1
        /\ \A e \in Emitted :
              /\ \E b \in AnonBucketIds : e.key = BucketName(b)
              /\ e.requestCount = WeightOfKey(e.key)

C5_Witness ==
    /\ op = "getTopAnonymousUsers"
    /\ pc = "done"
    /\ Len(results) = 3
    /\ \E i, j, k \in 1..3 :
          /\ results[i].key = IndexKey(3, 200) /\ results[i].requestCount = 5
          /\ results[j].key = IndexKey(3, 404) /\ results[j].requestCount = 1
          /\ results[k].key = IndexKey(30, 200) /\ results[k].requestCount = 5
    /\ Len(out) = 2
    /\ \E e \in Emitted : e.key = BucketName(3) /\ e.requestCount = 6
    /\ \E e \in Emitted : e.key = BucketName(30) /\ e.requestCount = 5

\* C6: the successRate of every emitted entity is a number between 0 and 100
\* (every row has a weight >= 0 and a success weight between 0 and its weight).
C6_SuccessRateBound ==
    \A e \in Emitted :
        /\ ~e.successRate.nan
        /\ e.successRate.val >= 0
        /\ e.successRate.val <= 10000

\* C7: every emitted entity has a total request weight > 0, so that no average
\* or rate is the result of a division by zero.
C7_NoZeroWeightEntity ==
    \A e \in Emitted :
        /\ WeightOfKey(e.key) > 0
        /\ ~e.avgResponseTime.nan
        /\ ~e.successRate.nan

\* the answer of the store with its rows in another order
Permuted(rows, f) == [i \in 1..Len(rows) |-> rows[f[i]]]

\* what the operation computes for each key of an answer, before truncation
EntitiesOf(rows) ==
    IF op = "getTopUsers"
    THEN LET m == userMapOf(rows) IN {TopUser(m[i], period) : i \in 1..Len(m)}
    ELSE LET m == bucketMapOf(rows) IN {TopAnonymousUser(m[i], period) : i \in 1..Len(m)}

Metrics(e) == <<e.key, e.requestCount, e.avgResponseTime, e.successRate>>

TotalOf(x) == IF op = "getTopUsers" THEN x.totalRequests ELSE x.requestCount

DistinctTotals ==
    \A i, j \in 1..Len(entries) : i # j => TotalOf(entries[i]) # TotalOf(entries[j])

\* C9: with n entities of pairwise distinct totals and a limit L >= 0 (10 when
\* the request has no limit parameter), exactly min(n, L) entities are returned,
\* those of the highest totals, in strictly descending order of total, whatever
\* the order of the rows.
C9_RankingAndTruncation ==
    /\ (pc # "idle" /\ limitParam = <<>>) => limit = 10
    /\ (pc = "done" /\ DistinctTotals /\ limit >= 0) =>
          /\ Len(out) = IF Len(entries) < limit THEN Len(entries) ELSE limit
          /\ \A i \in 1..Len(out) :
                \E j \in 1..Len(entries) :
                    entries[j].key = out[i].key /\ TotalOf(entries[j]) = out[i].requestCount
          /\ \A i \in 1..(Len(out) - 1) : out[i].requestCount > out[i + 1].requestCount
          /\ \A j \in 1..Len(entries) :
                (\A i \in 1..Len(out) : out[i].key # entries[j].key) =>
                    \A i \in 1..Len(out) : TotalOf(entries[j]) < out[i].requestCount

C9_Witness ==
    /\ pc = "done"
    /\ DistinctTotals
    /\ Len(entries) = 3
    /\ limit = 2
    /\ Len(out) = 2
    /\ TotalOf(entries[1]) < TotalOf(entries[2])
    /\ TotalOf(entries[3]) > TotalOf(entries[1])

\* h hundredths is scale * n / d rounded once to the nearest hundredth
IsRounded(x, n, d, scale) ==
    IF d = 0 THEN x.nan
    ELSE /\ ~x.nan
         /\ 2 * d * x.val <= 2 * scale * n + d
         /\ 2 * d * x.val > 2 * scale * n - d

ExampleRows ==
    <<Row(ApiKey(1), "", 200, <<10, 150>>), Row(ApiKey(1), "", 500, <<2, 200>>)>>

\* C10: avgResponseTime is (sum of response time x weight) / (sum of weight) and
\* successRate is 100 x (sum of success weight) / (sum of weight), each rounded
\* once to 2 decimals; the rows (k1, 200, 10, 1500, 10) and (k1, 500, 2, 400, 0)
\* give requestCount 12, avgResponseTime 158.33, successRate 83.33.
C10_WeightedAverageRoundedOnce ==
    /\ \A e \in Emitted :
          /\ IsRounded(e.avgResponseTime, ResponseTimeOfKey(e.key), WeightOfKey(e.key), 100)
          /\ IsRounded(e.successRate, SuccessOfKey(e.key), WeightOfKey(e.key), 10000)
    /\ (pc = "done" /\ op = "getTopUsers" /\ results = ExampleRows /\ limit >= 1) =>
          /\ Len(out) = 1
          /\ out[1].requestCount = 12
          /\ out[1].avgResponseTime = Num(15833)
          /\ out[1].successRate = Num(8333)

C10_Witness ==
    /\ pc = "done"
    /\ op = "getTopUsers"
    /\ results = ExampleRows
    /\ Len(out) = 1
    /\ out[1].avgResponseTime = Num(15833)
    /\ out[1].successRate = Num(8333)

(***************************************************************************)
(* Claims about the identity lookups of getTopUsers                        *)
(***************************************************************************)
\* the entities the ranking keeps: sorted by weight, descending, cut at the limit
Retained ==
    Slice0(SortDesc(entries, [i \in 1..Len(entries) |-> entries[i].totalRequests]), limit)

\* C11: getTopUsers looks up the identity of the entities kept by sort and
\* truncation only, one lookup per returned entity and none for a dropped one,
\* and returns the entities in the order of their rank.
C11_EnrichmentAfterTruncation ==
    op = "getTopUsers" =>
        /\ Len(lookups) <= Len(Retained)
        /\ \A i \in 1..Len(lookups) : lookups[i] = Retained[i].key
        /\ Len(out) <= Len(lookups)
        /\ \A i \in 1..Len(out) : out[i].key = Retained[i].key
        /\ (pc = "done" /\ response.status = 200) =>
              /\ Len(out) = Len(Retained)
              /\ Len(lookups) = Len(out)

\* three entities, two returned after two lookups, the third dropped unlooked
C11_Witness ==
    /\ pc = "done"
    /\ op = "getTopUsers"
    /\ response.status = 200
    /\ Len(entries) = 3
    /\ Len(out) = 2
    /\ lookups = <<out[1].key, out[2].key>>
    /\ out[1].requestCount > out[2].requestCount

\* C12: whatever the limit parameter is (0, a negative integer, a text that is
\* no number), getTopUsers issues at most max(limit, 0) identity lookups and
\* returns at most max(limit, 0) entities.
C12_FanOutBound ==
    op = "getTopUsers" =>
        LET bound == IF limitNaN \/ limit < 0 THEN 0 ELSE limit
        IN /\ Len(lookups) <= bound
           /\ Len(out) <= bound

\* C13: an API key without a record in api_keys is returned with name, email and
\* organization null, and a key whose record holds an empty field is returned so
\* that the empty field can be told from a missing record: it is not made null.
C13_AbsentVersusBlank ==
    op = "getTopUsers" =>
        \A i \in 1..Len(out) :
            LET info == UserInfo(out[i].key)
            IN /\ ~info.found =>
                     /\ out[i].name = "null"
                     /\ out[i].email = "null"
                     /\ out[i].organization = "null"
               /\ (info.found /\ info.name = "") => out[i].name # "null"
               /\ (info.found /\ info.email = "") => out[i].email # "null"
               /\ (info.found /\ info.organization = "") => out[i].organization # "null"

\* C14: a lookup in D1 that throws does not fail the request: once lookups have
\* been issued, /api/top-users is answered 200 and getTopUsers returns every
\* ranked entity (with the unknown identity where the lookup failed).
C14_LookupFailureNonFatal ==
    (pc = "done" /\ op = "getTopUsers" /\ lookups # <<>>) =>
        /\ response.status = 200
        /\ Len(out) = Len(Retained)

(***************************************************************************)
(* Claims about failures and validation                                    *)
(***************************************************************************)
\* C15: when the store answers a query with a status that is not 2xx, or with a
\* body that cannot be parsed, the query is not sent again, no data is returned
\* and the request ends with a 500 JSON error whose message carries the status
\* and the text of the store's answer.
C15_StoreFailurePropagates ==
    (pc = "done" /\ answer # NoAnswer /\ answer # JsonAnswer) =>
        /\ queries = 1
        /\ out = <<>>
        /\ lookups = <<>>
        /\ response.status = 500
        /\ response.fields = {"error", "message"}
        /\ response.message.status = answer.status
        /\ response.message.body = answer.body

\* C16: a request of a bucket-scoped route whose bucket parameter is not of the
\* form anon_<digits> is answered 400, without a query to the store.
C16_InvalidBucketIs400 ==
    (pc = "done" /\ route \in BucketRoutes /\ bucketMatch(keyParam) = <<>>) =>
        /\ response.status = 400
        /\ queries = 0

\* the request carries a period that is neither hour nor day, or it is
\* entity-scoped and its apiKey or bucket parameter is missing or empty
InvalidInput ==
    /\ route # ""
    /\ \/ periodParam \notin {"", "hour", "day"}
       \/ route \in ApiKeyRoutes \cup BucketRoutes /\ keyParam = <<>>

\* C17: a request with a period other than hour and day, or an entity-scoped
\* request without apiKey or bucket, is answered 400 with an error message, and
\* no query is sent to the store and no identity is looked up for it; a request
\* without period is handled with the period hour.
C17_ValidationPrecedesQuery ==
    /\ InvalidInput =>
          /\ pc = "done"
          /\ response.status = 400
          /\ response.fields = {"error"}
          /\ response.error # ""
          /\ queries = 0
          /\ lookups = <<>>
          /\ answer = NoAnswer
    /\ (route # "" /\ periodParam = "") => period = "hour"

\* a request of /api/user-timeline with a valid period and no apiKey is answered 400
C17_Witness ==
    /\ pc = "done"
    /\ route = "/api/user-timeline"
    /\ periodParam = "day"
    /\ keyParam = <<>>
    /\ response.status = 400
    /\ queries = 0

\* C18: a row with a negative requestCount makes the aggregation fail with an
\* error that reaches the caller; the weight is neither clamped nor summed.
C18_NegativeWeightRejected ==
    (pc = "done" /\ op \in Operations
        /\ \E i \in 1..Len(results) : results[i].requestCount < 0) =>
        /\ response.status >= 400
        /\ out = <<>>

(***************************************************************************)
(* Claims about rows of other keys in getTopAnonymousUsers                 *)
(***************************************************************************)
\* the key begins with anon_, one or more digits, and an underscore
BeginsAnonDigits(key) ==
    \E n \in 1..Len(key) :
        /\ Len(key) > Len(AnonPrefix) + n
        /\ SubSeq(key, 1, Len(AnonPrefix)) = AnonPrefix
        /\ \A i \in 1..n : IsDigit(key[Len(AnonPrefix) + i])
        /\ key[Len(AnonPrefix) + n + 1] = Underscore

MatchingRow(r) == BeginsAnonDigits(r.key)

\* C19: in getTopAnonymousUsers a row whose index key does not begin with
\* anon_<digits>_ adds to no bucket, makes no entry and raises no error, at
\* whatever position it stands: the result is that of the rows without it.
C19_NonMatchingSkipped ==
    (pc = "done" /\ op = "getTopAnonymousUsers") =>
        /\ response.status = 200
        /\ entries = bucketMapOf(SelectSeq(results, MatchingRow))
        /\ out = topAnonymousOf(bucketMapOf(SelectSeq(results, MatchingRow)), period, limit)
        /\ \A i \in 1..Len(entries) :
              \E r \in {results[j] : j \in 1..Len(results)} :
                  MatchingRow(r) /\ StartsWith(r.key, entries[i].key \o <<Underscore>>)

\* a row of another key stands between the rows of two buckets
C19_Witness ==
    /\ pc = "done"
    /\ op = "getTopAnonymousUsers"
    /\ Len(results) = 3
    /\ ~MatchingRow(results[2])
    /\ MatchingRow(results[1])
    /\ MatchingRow(results[3])
    /\ Len(entries) = 2
    /\ Len(out) = 2

(***************************************************************************)
(* Claims about the timelines                                              *)
(***************************************************************************)
\* the samples of the period that belong to the entity the timeline is asked for
Underlying ==
    {s \in dataset :
        /\ s.timestamp > now - intervalMinutes(tperiod)
        /\ tfn = "getUserTimeline" => s.blob1 = tkey
        /\ tfn = "getAnonymousTimeline" =>
              s.blob1 = <<>> /\ KeyBucketId(s.index1) = ParamBucketId(tkey)}

\* the window a sample falls in and, for the timelines by status, its status
GroupOfSample(s) ==
    <<CHOOSE w \in 0..s.timestamp :
          /\ w % bucketInterval(tperiod) = 0
          /\ w <= s.timestamp
          /\ s.timestamp < w + bucketInterval(tperiod),
      IF tfn = "getUsageTimeline" THEN 0 ELSE s.double2>>

\* C20: the timeline returned by getUsageTimeline, getUserTimeline and
\* getAnonymousTimeline holds exactly one entry for each window (for each
\* window and status) that has a sample, and no entry for one that has none.
C20_SparseTimeline ==
    tpc = "returned" =>
        /\ \A s \in Underlying :
              Cardinality({i \in 1..Len(timeline) :
                  <<timeline[i].timestamp, timeline[i].statusCode>> = GroupOfSample(s)}) = 1
        /\ \A i \in 1..Len(timeline) :
              \E s \in Underlying :
                  GroupOfSample(s) = <<timeline[i].timestamp, timeline[i].statusCode>>

\* the samples the query of the timeline function reads
Counted ==
    {s \in dataset : TimelineWhere(tfn, s, tperiod, tkey, now)}

\* width of a window in minutes: 5 minutes for an hour, 1 hour for a day
WindowWidth == IF tperiod = "hour" THEN 5 ELSE 60

\* the largest window boundary that is <= the timestamp of the sample
\* (of WindowWidth consecutive instants exactly one is a boundary)
WindowStart(s) ==
    CHOOSE w \in (s.timestamp - WindowWidth + 1)..s.timestamp : w % WindowWidth = 0

\* C21: a timeline is in ascending order of window start, and of status code
\* within one window; every sample read is counted in exactly one window, the
\* one that starts at the largest boundary <= its timestamp; windows are 5
\* minutes wide for period hour and 1 hour wide for period day.
C21_TimelineOrderAndGranularity ==
    tpc = "returned" =>
        /\ \A i, j \in 1..Len(timeline) :
              i < j =>
                 \/ timeline[i].timestamp < timeline[j].timestamp
                 \/ /\ timeline[i].timestamp = timeline[j].timestamp
                    /\ timeline[i].statusCode < timeline[j].statusCode
        /\ \A i \in 1..Len(timeline) :
              /\ timeline[i].timestamp % WindowWidth = 0
              /\ timeline[i].requestCount =
                    SumSampleInterval({s \in Counted :
                        /\ WindowStart(s) = timeline[i].timestamp
                        /\ tfn # "getUsageTimeline" => s.double2 = timeline[i].statusCode})
        /\ \A s \in Counted :
              \E i \in 1..Len(timeline) : timeline[i].timestamp = WindowStart(s)

\* two samples of minute 7 with different status: one window, starting at
\* minute 5, two entries in the order of the status codes
C21_Witness ==
    /\ tpc = "returned"
    /\ tfn = "getUserTimeline"
    /\ tperiod = "hour"
    /\ Len(timeline) = 2
    /\ timeline[1].timestamp = 5
    /\ timeline[2].timestamp = 5
    /\ timeline[1].statusCode = 200
    /\ timeline[2].statusCode = 500
    /\ \A s \in dataset : s.timestamp = 7

(***************************************************************************)
(* Claims about the responses                                              *)
(***************************************************************************)
\* C25: every successful response of an analytics route of /api/ is a JSON
\* object with exactly the members period, data and timestamp.
C25_UniformResponseShape ==
    (pc = "done" /\ response.status = 200) =>
        response.fields = {"period", "data", "timestamp"}

(***************************************************************************)
(* Claims about concurrent requests                                        *)
(***************************************************************************)
\* what the operation of a call returns for the rows it received when no other
\* call runs
AloneEntries(r) ==
    IF r.op = "getTopUsers" THEN userMapOf(r.results) ELSE bucketMapOf(r.results)

AloneResult(r) ==
    IF r.op = "getTopUsers"
    THEN LET kept == sortedUsersOf(userMapOf(r.results), r.limit)
         IN [k \in 1..Len(kept) |-> TopUser(kept[k], "hour")]
    ELSE topAnonymousOf(bucketMapOf(r.results), "hour", r.limit)

\* C22: when requests are handled concurrently, interleaved at every await, each
\* operation returns what it would return alone for the same rows; no map or
\* total written for one request is read for another.
C22_RequestIsolation ==
    \A i \in RequestIds :
        /\ reqs[i].pc \in {"lookup", "done"} =>
              /\ reqs[i].entries = AloneEntries(reqs[i])
              /\ \A k \in 1..Len(reqs[i].out) : reqs[i].out[k] = AloneResult(reqs[i])[k]
        /\ reqs[i].pc = "done" => reqs[i].out = AloneResult(reqs[i])

\* two calls of getTopUsers are between their lookups at the same time, on
\* different rows
C22_Witness ==
    /\ reqs[1].pc = "lookup"
    /\ reqs[2].pc = "lookup"
    /\ Len(reqs[1].out) = 1
    /\ Len(reqs[2].out) = 0
    /\ reqs[1].results = <<ConcRowA, ConcRowB>>
    /\ reqs[2].results = <<ConcRowB>>

\* C23: every request is answered in the end, also when the store or D1 never
\* answers: the query or lookup is cancelled by a timeout of the request.
C23_NoIndefiniteBlocking ==
    (pc \in {"query", "lookup"}) ~> (pc = "done")

\* C24: the worker only reads: whatever requests it handles, the table of D1
\* stays as it was and no statement that writes is run.
C24_ReadOnlySystem ==
    db = InitialDb /\ wwrites = 0

\* the header is of scheme Basic and its credentials decode to a user name
\* without colon, a colon and the password
CarriesPassword(h) ==
    /\ Len(h) >= 6
    /\ toLowerCase(SubSeq(h, 1, 5)) = BasicLower
    /\ h[6] = Space
    /\ LET d == atob(SecondPart(h))
       IN /\ d.ok
          /\ \E i \in 1..Len(d.text) :
                /\ d.text[i] = Colon
                /\ \A j \in 1..(i - 1) : d.text[j] # Colon
                /\ SubSeq(d.text, i + 1, Len(d.text)) = DashboardPassword

\* C27: a request that is not OPTIONS and does not carry the password is
\* answered 401 and sends no query, reads nothing and writes nothing; an
\* OPTIONS request is answered 204 whatever header it has.
C27_AuthenticationGate ==
    /\ (wpc # "idle" /\ wreq.method # "OPTIONS" /\ ~CarriesPassword(wreq.authorization))
          => /\ wpc = "done"
             /\ wresp.status = 401
             /\ wqueries = 0 /\ wreads = 0 /\ wwrites = 0
    /\ (wpc # "idle" /\ wreq.method = "OPTIONS")
          => wpc = "done" /\ wresp.status = 204

\* a PATCH of /api/api-keys whose password is wrong has been turned away
C27_Witness ==
    /\ wpc = "done"
    /\ wreq.method = "PATCH"
    /\ wreq.path = ApiKeysPath
    /\ wreq.body.id = 1
    /\ wreq.body.name = "n"
    /\ checkAuth(wreq.authorization) = "Invalid password"
    /\ wresp.status = 401
    /\ wwrites = 0

\* the entry of the ranking for the bucket of the detail view
RankedEntry == ranked[CHOOSE i \in 1..Len(ranked) : ranked[i].key = cbucket]

\* C26: every bucket of the ranking passes the format check of the
\* bucket-scoped operations, and on the same data the request counts of its
\* status breakdown add up to its request count in the ranking.
C26_CrossOperationConsistency ==
    /\ \A i \in 1..Len(ranked) : bucketMatch(ranked[i].key) # <<>>
    /\ cpc # "threw"
    /\ cpc = "detail" => SumRequestCount(breakdown) = RankedEntry.requestCount

\* C28: when no loadData call is in flight and no error is shown, the tables
\* and charts show the data of the selected period in the selected view.
C28_DashboardLoadRace ==
    (loads = {} /\ rendered.view # "none" /\ ~rendered.error)
        => rendered.period = currentPeriod /\ rendered.view = currentView

\* C29: getCachedIpInfo returns the data of an entry only if the entry is
\* younger than IP_CACHE_TTL; called on an entry of that age or older it
\* returns null and deletes the entry, so that no response comes from such
\* an entry.
C29_IpCacheFreshness ==
    ipc \in {"fetch", "done"} /\ ipReq # "" =>
        /\ ipServed.hit => ipServed.present /\ ipServed.age < IP_CACHE_TTL
        /\ (ipServed.present /\ ipServed.age >= IP_CACHE_TTL) =>
              /\ ~ipServed.hit
              /\ ipFetches = 1
              /\ ipResp.outcome # "cached"
              /\ ipc = "fetch" => ~ipCache[ipReq].present
        /\ ipResp.outcome = "cached" => ipServed.age < IP_CACHE_TTL

\* a request has found an entry aged exactly IP_CACHE_TTL: null, entry deleted
C29_Witness ==
    /\ ipc = "fetch"
    /\ ipServed.present
    /\ ipServed.age = IP_CACHE_TTL
    /\ ~ipCache[ipReq].present

\* C30: once a request for an address has ended after an HTTP response of
\* the service, a request for that address less than IP_CACHE_TTL later is
\* answered from the cache and the service is not fetched; a lookup leaves
\* the cache as it was only if its fetch threw.
C30_NegativeCaching ==
    /\ (ipc \in {"fetch", "done"} /\ ipReq # "" /\ ipAnswered[ipReq] >= 0
          /\ ipServed.at - ipAnswered[ipReq] < IP_CACHE_TTL)
          => ipFetches = 0 /\ ipResp.outcome = "cached"
    /\ (ipc = "done" /\ ipResp.outcome \in HttpOutcomes)
          => /\ ipCache[ipReq].present
             /\ ipCache[ipReq].timestamp = ipResp.at

====
